---- MODULE Spec2Model ----
(***************************************************************************)
(* Verification model of the hero_stats repository.                        *)
(*                                                                         *)
(* Part 1: canon, the name canonicalisation of the draft-helper page.      *)
(* Part 2: the draft-helper page (static and realtime build): selection,   *)
(*         ability collection, the ability-owner map and the combo         *)
(*         matcher collectPairs.                                           *)
(*                                                                         *)
(* A string is a sequence of characters; a character is a one-character    *)
(* TLA+ string, or the name of its code point ("U+2019") when it is not    *)
(* ASCII.                                                                  *)
(***************************************************************************)
EXTENDS Integers, Sequences, FiniteSets, TLC

VARIABLES
    \* ---- canon experiments (SpecCanon) ----
    cs,              \* a raw display string
    cv,              \* a variant of cs (case, quotes, dashes, whitespace runs)
    key1,            \* canon(cs) once computed
    key2,            \* canon(cv) once computed
    rekey,           \* canon(key1) once computed
    \* ---- the draft-helper page (Spec) ----
    build,           \* "static" (build_ad_helper_page) or "realtime" (build_ability_draft_game)
    DATA,            \* hero name -> list of ability names (page constant DATA)
    HEROES,          \* the keys of DATA, sorted (page constant HEROES)
    ROLES,           \* the ability names that carry a role label (page constant ROLES)
    PAIRS,           \* list of pair records (page constant PAIRS)
    sel,             \* selected heroes, in insertion order (JavaScript Set)
    hidden,          \* set of canonical names hidden from the role tables
    cachedAbilities, \* rows of the last collectAbilities call
    abilityOwners,   \* canonical ability name -> set of canonical hero names
    pairRows,        \* rows returned by the last collectPairs call
    tbodyP,          \* rows shown in the combos table
    sortP,           \* [key, dir] of the combos table (sortPKey, sortPDir)
    localRev,        \* realtime: revision of this tab's own state
    lastAppliedRev,  \* realtime: revision of the last applied inbound state
    \* ---- adjusted_score (SpecScore) ----
    wins,            \* argument wins
    games,           \* argument games
    gamma,           \* argument gamma, in hundredths (69 is the default 0.69)
    score,           \* adjusted_score(wins, games, gamma), in 1/Scale units
    prevScore,       \* the score of the same games and gamma with one win less
    \* ---- the scraper (SpecScrape) ----
    hs_html,         \* the ability-high-skill page
    byhero_html,     \* the ability-by-hero page: its tables
    scrape_pc,       \* position of main: start, fetched, hs_parsed,
                     \* byhero_parsed, saved, failed
    hs_parsed,       \* [abilities, models] returned by parse_hs_table
    heroes_out,      \* the dict returned by parse_by_hero
    cache_file,      \* cache/ability_high_skill.json
    byhero_debug,    \* whether byhero_debug.html was written
    picked,          \* <<>>, or the results of the two table selections
    scrape_error,    \* the message of the exception that ended main
    \* ---- the HTTP request helpers (SpecHttp) ----
    http_fn,         \* the helper that is called
    http_pc,         \* calling, done
    attempts,        \* GET requests sent by the call so far
    retries,         \* 429 answers so far: the local retries of player_stats,
                     \* the recursion depth of hero_stats
    last_resp,       \* the last answer: [status, json], status 0 when no
                     \* response came
    earlier_other,   \* whether the call went on after an answer other than 429
    outcome,         \* how the call ended: [kind, value, status]
    \* ---- the stat reports (SpecReport) ----
    report_script,   \* player_stats or hero_stats
    csv_rows,        \* the rows of the players CSV: [name, account]
    refresh,         \* the --refresh flag
    player_cache,    \* cache/: the per-player files [account, tf, keys, by]
    other_cache,     \* cache/: the names of the files of the other scripts
    cache0,          \* cache/ as the run found it
    last_fetch,      \* the last call of fetch_player_data and how it ended
    rp_pc,           \* hero_list, players, done, crashed
    row_i,           \* the CSV row in progress
    tf_i,            \* the time frame in progress for that row
    player_info,     \* player_stats: the rows of the player in progress
    players_data,    \* the per-player results collected so far
    report,          \* the written report: time frame -> rows
    failed,          \* the <<row, time frame>> fetches that gave no data
    crash,           \* what ended the run with an exception
    \* ---- the tools over the cache files (SpecFiles) ----
    tool,            \* the script run: a page builder or the role labeler
    hs_file,         \* cache/ability_high_skill.json
    roles_file,      \* cache/ability_roles.json
    pairs_file,      \* cache/ability_pairs.json
    dist_html,       \* dist/ad_helper.html
    backups,         \* cache/backups/: the copies taken, oldest first
    tool_pc,         \* start, loaded, prompt, done, exit, error
    exit_msg,        \* the message of the SystemExit
    labels,          \* labeler: payload["labels"]
    history,         \* labeler: (ability, previous label) of each change
    made,            \* labeler: the label changes of the session
    idx,             \* labeler: position in the queue
    queue,           \* labeler: the abilities in the order asked
    files0,          \* the output files as the run found them
    last_key,        \* labeler: the key typed last
    tmp_file,        \* cache/ability_roles.json.tmp
    save_pc,         \* save_labels: open, dump, replace, backup
    save_then,       \* where main goes on after the save
    \* ---- the tabs of one realtime room (SpecRoom) ----
    isReady,         \* per tab: the page is open and subscribed to the room
    isSyncing,       \* per tab: the join window is open
    gotRemoteState,  \* per tab: a state of another tab was applied
    localRevs,       \* per tab: localRev
    lastAppliedRevs, \* per tab: lastAppliedRev
    tabState,        \* per tab: the selection and hidden set shown
    timer,           \* per tab: the debounce timer of broadcastDebounced runs
    net,             \* the broadcast messages sent and not yet delivered
    changes,         \* the local changes made in the room
    sentSeq,         \* per tab: the state messages it has sent
    appliedSeq,      \* per tab and sender: the message applied last
    last_change,     \* the tab of the last local change, made past its window
    join_expect      \* the state the room held when the last tab joined

canonVars == <<cs, cv, key1, key2, rekey>>

dataVars == <<build, DATA, HEROES, ROLES, PAIRS>>

viewVars == <<cachedAbilities, abilityOwners, pairRows, tbodyP>>

rtVars == <<localRev, lastAppliedRev>>

pageVars == <<dataVars, sel, hidden, viewVars, sortP, rtVars>>

scoreVars == <<wins, games, gamma, score, prevScore>>

scrapeVars ==
    <<hs_html, byhero_html, scrape_pc, hs_parsed, heroes_out, cache_file,
      byhero_debug, picked, scrape_error>>

httpVars ==
    <<http_fn, http_pc, attempts, retries, last_resp, earlier_other, outcome>>

reportVars ==
    <<report_script, csv_rows, refresh, player_cache, other_cache, cache0,
      last_fetch, rp_pc, row_i, tf_i,
      player_info, players_data, report, failed, crash>>

fileVars ==
    <<tool, hs_file, roles_file, pairs_file, dist_html, backups, tool_pc,
      exit_msg, labels, history, made, idx, queue, files0, last_key,
      tmp_file, save_pc, save_then>>

\* the state of the batch scripts (the stat reporters, the scraper, ...)
roomVars ==
    <<isReady, isSyncing, gotRemoteState, localRevs, lastAppliedRevs, tabState,
      timer, net, changes, sentSeq, appliedSeq, last_change, join_expect>>

scriptVars == <<scoreVars, scrapeVars, httpVars, reportVars, fileVars, roomVars>>

\* what the steps of one script leave alone
offScore ==
    <<canonVars, pageVars, scrapeVars, httpVars, reportVars, fileVars, roomVars>>

offScrape ==
    <<canonVars, pageVars, scoreVars, httpVars, reportVars, fileVars, roomVars>>

offHttp ==
    <<canonVars, pageVars, scoreVars, scrapeVars, reportVars, fileVars, roomVars>>

offReport ==
    <<canonVars, pageVars, scoreVars, scrapeVars, httpVars, fileVars, roomVars>>

offFiles ==
    <<canonVars, pageVars, scoreVars, scrapeVars, httpVars, reportVars, roomVars>>

\* what the page handlers, respectively the canon experiments, leave alone
offRoom ==
    <<canonVars, pageVars, scoreVars, scrapeVars, httpVars, reportVars, fileVars>>

offPage == <<canonVars, scriptVars>>

offCanon == <<pageVars, scriptVars>>

vars == <<canonVars, pageVars, scriptVars>>

(***************************************************************************)
(* The batch scripts before they run                                       *)
(***************************************************************************)
ScoreIdle ==
    /\ wins = 0
    /\ games = 0
    /\ gamma = 69
    /\ score = 0
    /\ prevScore = 0

ScrapeIdle ==
    /\ hs_html = <<>>
    /\ byhero_html = <<>>
    /\ scrape_pc = "idle"
    /\ hs_parsed = <<>>
    /\ heroes_out = <<>>
    /\ cache_file = <<>>
    /\ byhero_debug = FALSE
    /\ picked = <<>>
    /\ scrape_error = ""

HttpIdle ==
    /\ http_fn = ""
    /\ http_pc = "idle"
    /\ attempts = 0
    /\ retries = 0
    /\ last_resp = <<>>
    /\ earlier_other = FALSE
    /\ outcome = <<>>

ReportIdle ==
    /\ report_script = ""
    /\ csv_rows = <<>>
    /\ refresh = FALSE
    /\ player_cache = {}
    /\ other_cache = {}
    /\ cache0 = <<>>
    /\ last_fetch = <<>>
    /\ rp_pc = "idle"
    /\ row_i = 0
    /\ tf_i = 0
    /\ player_info = <<>>
    /\ players_data = <<>>
    /\ report = <<>>
    /\ failed = {}
    /\ crash = ""

FilesIdle ==
    /\ tool = ""
    /\ hs_file = [kind |-> "absent", abilities |-> {}]
    /\ roles_file = [kind |-> "absent", labels |-> <<>>]
    /\ pairs_file = [kind |-> "absent", pairs |-> <<>>]
    /\ dist_html = <<>>
    /\ backups = <<>>
    /\ tool_pc = "idle"
    /\ exit_msg = <<>>
    /\ labels = <<>>
    /\ history = <<>>
    /\ made = 0
    /\ idx = 0
    /\ queue = <<>>
    /\ files0 = <<>>
    /\ last_key = ""
    /\ tmp_file = <<>>
    /\ save_pc = ""
    /\ save_then = ""

RoomIdle ==
    /\ isReady = <<>>
    /\ isSyncing = <<>>
    /\ gotRemoteState = <<>>
    /\ localRevs = <<>>
    /\ lastAppliedRevs = <<>>
    /\ tabState = <<>>
    /\ timer = <<>>
    /\ net = {}
    /\ changes = 0
    /\ sentSeq = <<>>
    /\ appliedSeq = <<>>
    /\ last_change = <<>>
    /\ join_expect = <<>>

\* every script but the named one is idle
IdleBut(script) ==
    /\ IF script = "score" THEN TRUE ELSE ScoreIdle
    /\ IF script = "scrape" THEN TRUE ELSE ScrapeIdle
    /\ IF script = "http" THEN TRUE ELSE HttpIdle
    /\ IF script = "report" THEN TRUE ELSE ReportIdle
    /\ IF script = "files" THEN TRUE ELSE FilesIdle
    /\ IF script = "room" THEN TRUE ELSE RoomIdle

ScriptsIdle == IdleBut("")

(***************************************************************************)
(* Bounds                                                                  *)
(***************************************************************************)
\* longest raw string drawn for the canon experiments
MaxStrLen == 3

(***************************************************************************)
(* Characters                                                              *)
(***************************************************************************)
UpperChars ==
    <<"A","B","C","D","E","F","G","H","I","J","K","L","M",
      "N","O","P","Q","R","S","T","U","V","W","X","Y","Z">>

LowerChars ==
    <<"a","b","c","d","e","f","g","h","i","j","k","l","m",
      "n","o","p","q","r","s","t","u","v","w","x","y","z">>

DigitChars == {"0","1","2","3","4","5","6","7","8","9"}

RSQUO == "U+2019"      \* right single quotation mark
LSQUO == "U+2018"      \* left single quotation mark
LDQUO == "U+201C"      \* left double quotation mark
RDQUO == "U+201D"      \* right double quotation mark
ENDASH == "U+2013"
EMDASH == "U+2014"
TMSIGN == "U+2122"     \* trade mark sign: no lower case, NFKD = "TM"
TAB == "U+0009"

Range(f) == { f[i] : i \in DOMAIN f }

\* JavaScript \w (no u flag): [A-Za-z0-9_]
WordChars == Range(UpperChars) \cup Range(LowerChars) \cup DigitChars \cup {"_"}

\* the members of JavaScript \s that occur in the model
SpaceChars == {" ", TAB}

(***************************************************************************)
(* canon: one operator per step of the replace chain                       *)
(***************************************************************************)
RECURSIVE FlatMap(_, _)
\* concatenation of f[c] for the characters c of s; characters outside
\* DOMAIN f are kept
FlatMap(f, s) ==
    IF s = <<>> THEN <<>>
    ELSE (IF Head(s) \in DOMAIN f THEN f[Head(s)] ELSE <<Head(s)>>)
         \o FlatMap(f, Tail(s))

\* String.prototype.toLowerCase: A-Z have a lower case; the quotation marks,
\* dashes, punctuation and U+2122 have none
LowerOf ==
    [c \in Range(UpperChars) |->
        <<LowerChars[CHOOSE i \in DOMAIN UpperChars : UpperChars[i] = c]>>]

ToLowerCase(s) == FlatMap(LowerOf, s)

\* String.prototype.normalize("NFKD"): compatibility decomposition.  Of the
\* characters of the model only U+2122 has a decomposition, the two capital
\* letters T M.
DecompositionOf == [c \in {TMSIGN} |-> <<"T", "M">>]

NFKD(s) == FlatMap(DecompositionOf, s)

\* .replace(/[‘’]/g, "'")
ReplaceSingleQuotes(s) == FlatMap([c \in {LSQUO, RSQUO} |-> <<"'">>], s)

\* .replace(/[“”]/g, '"')
ReplaceDoubleQuotes(s) == FlatMap([c \in {LDQUO, RDQUO} |-> <<"\"">>], s)

\* a canon that leaves the dashes to the non-word rule
ReplaceDashes_Skipped(s) == s

\* .replace(/[–—]/g, "-")
ReplaceDashes(s) == FlatMap([c \in {ENDASH, EMDASH} |-> <<"-">>], s)

\* .replace(/[._]/g, " ")
ReplaceDotUnderscore(s) == FlatMap([c \in {".", "_"} |-> <<" ">>], s)

RECURSIVE ReplaceNonWord(_)
\* .replace(/[^\w\s'-]/g, " ")
ReplaceNonWord(s) ==
    IF s = <<>> THEN <<>>
    ELSE <<(IF Head(s) \in WordChars \cup SpaceChars \cup {"'", "-"}
            THEN Head(s) ELSE " ")>> \o ReplaceNonWord(Tail(s))

RECURSIVE CollapseSpaces(_)
\* .replace(/\s+/g, " ")
CollapseSpaces(s) ==
    IF s = <<>> THEN <<>>
    ELSE IF Head(s) \in SpaceChars
         THEN IF Len(s) > 1 /\ s[2] \in SpaceChars
              THEN CollapseSpaces(Tail(s))
              ELSE <<" ">> \o CollapseSpaces(Tail(s))
         ELSE <<Head(s)>> \o CollapseSpaces(Tail(s))

RECURSIVE TrimLeft(_)
TrimLeft(s) ==
    IF s # <<>> /\ Head(s) \in SpaceChars THEN TrimLeft(Tail(s)) ELSE s

RECURSIVE TrimRight(_)
TrimRight(s) ==
    IF s # <<>> /\ s[Len(s)] \in SpaceChars
    THEN TrimRight(SubSeq(s, 1, Len(s) - 1)) ELSE s

\* String.prototype.trim
Trim(s) == TrimRight(TrimLeft(s))

canon(s) ==
    Trim(CollapseSpaces(ReplaceNonWord(ReplaceDotUnderscore(ReplaceDashes(
        ReplaceDoubleQuotes(ReplaceSingleQuotes(NFKD(ToLowerCase(s)))))))))

(***************************************************************************)
(* The draft-helper page: data                                             *)
(***************************************************************************)
\* largest revision number a tab reaches or receives
MaxRev == 2

\* const MAX = 12: the most heroes the Add button lets into the selection
MAX == 12

Ursa == <<"U","r","s","a">>
Lion == <<"L","i","o","n">>
Shaman == <<"S","h","a","m","a","n">>
Overpower == <<"O","v","e","r","p","o","w","e","r">>
OverpowerUpper == <<"O","V","E","R","P","O","W","E","R">>
FurySwipes == <<"F","u","r","y"," ","S","w","i","p","e","s">>
Hex == <<"H","e","x">>
HexLower == <<"h","e","x">>
HexDotted == <<"H","e","x",".">>
Wards == <<"W","a","r","d","s">>
Aghanim == <<"A","g","h","s">>
\* a name that is a key of no page constant
Unknown == <<"Z","e","d">>
\* a property every JavaScript object inherits from Object.prototype
Constructor == <<"c","o","n","s","t","r","u","c","t","o","r">>

ObjectPrototypeKeys == {Constructor}

\* JSON values of the synergy field
Num(n) == [t |-> "number", v |-> n]
Null == [t |-> "null", v |-> 0]
Str == [t |-> "string", v |-> 0]

Pair(a, b, s) == [a1 |-> a, a2 |-> b, synergy |-> s]

\* cache/ability_high_skill.json (hero entries), cache/ability_roles.json and
\* cache/ability_pairs.json.  Synergy 4.2 is written in tenths.
ExampleCache ==
    [ heroes |-> <<Ursa, Lion>>,
      abilities |-> (Ursa :> <<Overpower, FurySwipes>>) @@ (Lion :> <<Hex>>),
      roles |-> {Overpower},
      pairs |-> << Pair(Overpower, Hex, Num(42)) >> ]

\* Hex is exposed by two heroes under the same raw name
DraftCache ==
    [ heroes |-> <<Ursa, Lion, Shaman>>,
      abilities |-> (Ursa :> <<Overpower, FurySwipes>>) @@ (Lion :> <<Hex>>)
                    @@ (Shaman :> <<Hex, Wards>>),
      roles |-> {Hex, Wards},
      pairs |-> << Pair(Overpower, Hex, Num(42)),
                   Pair(Hex, Wards, Null),
                   Pair(Ursa, HexDotted, Num(10)),
                   Pair(Hex, Lion, Str),
                   Pair(Ursa, Lion, Num(5)),
                   Pair(Hex, HexLower, Num(99)),
                   Pair(Overpower, FurySwipes, Num(7)),
                   Pair(<<>>, Hex, Num(1)),
                   Pair(OverpowerUpper, Aghanim, Num(3)),
                   Pair(Constructor, Wards, Num(2)),
                   Pair(Wards, Constructor, Null),
                   Pair(Overpower, Hex, Num(42)) >> ]

\* Hex is exposed by two heroes under raw names that differ in case
VariantCache ==
    [ heroes |-> <<Lion, Shaman>>,
      abilities |-> (Lion :> <<Hex>>) @@ (Shaman :> <<HexLower, Wards>>),
      roles |-> {Hex},
      pairs |-> << Pair(Hex, Wards, Num(8)),
                   Pair(Shaman, Hex, Num(6)) >> ]

\* one hero more than MAX, no abilities; the first hero's model row is
\* labelled
WideHeroes == [i \in 1..(MAX + 1) |-> <<"H", LowerChars[i]>>]

WideCache ==
    [ heroes |-> WideHeroes,
      abilities |-> [h \in Range(WideHeroes) |-> <<>>],
      roles |-> {WideHeroes[1]},
      pairs |-> <<>> ]

SmallCaches == {ExampleCache, DraftCache, VariantCache}

\* load_high_skill: the hero's own name is appended to its ability list as a
\* model row unless an ability of that name is already there.  Of an ability
\* only the name is modelled.
load_high_skill(cache) ==
    [h \in Range(cache.heroes) |->
        IF \A i \in DOMAIN cache.abilities[h] : cache.abilities[h][i] # h
        THEN Append(cache.abilities[h], h)
        ELSE cache.abilities[h]]

\* DATA[name] as a JavaScript truth value: an own key, or a property
\* inherited from Object.prototype
DataTruthy(name) == name \in DOMAIN DATA \/ name \in ObjectPrototypeKeys

\* (DATA[h].abilities || [])
AbilitiesOf(h) == IF h \in DOMAIN DATA THEN DATA[h] ELSE <<>>

\* every name that occurs in a page constant or in an input of the model
PageNames ==
    UNION { Range(c.heroes) \cup UNION { Range(c.abilities[h]) : h \in Range(c.heroes) }
            \cup UNION { {c.pairs[i].a1, c.pairs[i].a2} : i \in DOMAIN c.pairs }
          : c \in SmallCaches \cup {WideCache} }
    \cup {Unknown, HexDotted} \cup ObjectPrototypeKeys

\* canon of the page names, computed once
CanonTable == [n \in PageNames |-> canon(n)]

\* canon(n) as the page calls it
Key(n) == IF n \in PageNames THEN CanonTable[n] ELSE canon(n)

(***************************************************************************)
(* collectAbilities and the owner map                                      *)
(***************************************************************************)
HasRow(rows, name) ==
    \E i \in DOMAIN rows : rows[i].kind = "ability" /\ rows[i].ability = name

RowIndex(rows, name) ==
    CHOOSE i \in DOMAIN rows : rows[i].kind = "ability" /\ rows[i].ability = name

RECURSIVE AddAbilityRows(_, _, _)
\* the inner loop of collectAbilities: the map is keyed by the raw a.name
AddAbilityRows(rows, h, names) ==
    IF names = <<>> THEN rows
    ELSE LET a == Head(names)
             withRow == IF HasRow(rows, a) THEN rows
                        ELSE Append(rows, [kind |-> "ability", ability |-> a,
                                           from |-> <<>>])
             i == RowIndex(withRow, a)
             pushed == [withRow EXCEPT ![i].from = Append(@, h)]
         IN  AddAbilityRows(pushed, h, Tail(names))

RECURSIVE CollectFrom(_, _)
CollectFrom(rows, heroes) ==
    IF heroes = <<>> THEN rows
    ELSE LET h == Head(heroes)
             withModel == Append(rows, [kind |-> "model", ability |-> h,
                                        from |-> <<h>>])
         IN  CollectFrom(AddAbilityRows(withModel, h, AbilitiesOf(h)),
                         Tail(heroes))

\* collectAbilities(): [...map.values()] for the selection s
collectAbilities(s) == CollectFrom(<<>>, s)

\* abilityOwners.set(aKey, owners)
MapSet(m, k, v) == [x \in DOMAIN m \cup {k} |-> IF x = k THEN v ELSE m[x]]

RECURSIVE OwnersFrom(_, _)
\* renderTables: rebuild owners with canonical keys
OwnersFrom(m, rows) ==
    IF rows = <<>> THEN m
    ELSE LET r == Head(rows)
         IN  IF r.kind = "ability"
             THEN OwnersFrom(MapSet(m, Key(r.ability),
                                    { Key(r.from[i]) : i \in DOMAIN r.from }),
                             Tail(rows))
             ELSE OwnersFrom(m, Tail(rows))

EmptyMap == [x \in {} |-> {}]

BuildOwners(rows) == OwnersFrom(EmptyMap, rows)

(***************************************************************************)
(* collectPairs                                                            *)
(***************************************************************************)
\* new Set([...sel].map(canon))
SelectedHeroes(s) == { Key(s[i]) : i \in DOMAIN s }

\* cachedAbilities.filter(r=>r.kind==="ability").map(r=>r.ability)
SelectedNames(rows) ==
    LET F(r) == r.kind = "ability"
        abil == SelectSeq(rows, F)
    IN  [i \in DOMAIN abil |-> abil[i].ability]

\* new Set(selectedAbilityNames.map(canon))
SelectedAbilities(names) == { Key(names[i]) : i \in DOMAIN names }

\* if (!a1raw || !a2raw) continue
MissingName(p) == p.a1 = <<>> \/ p.a2 = <<>>

\* the self-pair test on the raw names
IsSelfPair_Raw(p) == p.a1 = p.a2

\* if (a1n === a2n) continue
IsSelfPair(p) == Key(p.a1) = Key(p.a2)

\* the value of ok for a record that is neither nameless nor a self pair
CrossHero(p, selectedHeroes, selectedAbilities, owners) ==
    LET a1n == Key(p.a1)
        a2n == Key(p.a2)
        a1IsAbility == a1n \in DOMAIN owners
        a2IsAbility == a2n \in DOMAIN owners
        a1IsHero == a1n \in selectedHeroes
        a2IsHero == a2n \in selectedHeroes
    IN  IF a1IsAbility /\ a2IsAbility
        THEN /\ a1n \in selectedAbilities
             /\ a2n \in selectedAbilities
             /\ \E h1 \in owners[a1n] \cap selectedHeroes :
                    \E h2 \in owners[a2n] \cap selectedHeroes : h1 # h2
        ELSE IF a1IsHero /\ a2IsAbility
        THEN /\ a2n \in selectedAbilities
             /\ \E h2 \in owners[a2n] \cap selectedHeroes : h2 # a1n
        ELSE IF a2IsHero /\ a1IsAbility
        THEN /\ a1n \in selectedAbilities
             /\ \E h1 \in owners[a1n] \cap selectedHeroes : h1 # a2n
        ELSE FALSE

\* a record survives the loop body of collectPairs
PairOk(p, selectedHeroes, selectedAbilities, owners) ==
    /\ ~MissingName(p)
    /\ ~IsSelfPair(p)
    /\ CrossHero(p, selectedHeroes, selectedAbilities, owners)

\* syn:(typeof p.synergy==="number")?p.synergy:null
SynOf(p) == IF p.synergy.t = "number" THEN p.synergy ELSE Null

\* the row pushed for a surviving record (icons are not modelled)
PairRow(p) == [a1 |-> p.a1, a2 |-> p.a2, syn |-> SynOf(p)]

\* rows.unshift(...)
Push_Front(rows, row) == <<row>> \o rows

\* rows.push(...)
Push(rows, row) == Append(rows, row)

RECURSIVE PairLoop(_, _, _, _, _)
\* for (const p of PAIRS) { ... }
PairLoop(rows, pairs, selectedHeroes, selectedAbilities, owners) ==
    IF pairs = <<>> THEN rows
    ELSE LET p == Head(pairs)
         IN  PairLoop(IF PairOk(p, selectedHeroes, selectedAbilities, owners)
                      THEN Push(rows, PairRow(p)) ELSE rows,
                      Tail(pairs), selectedHeroes, selectedAbilities, owners)

\* collectPairs(selectedAbilityNames) with the globals sel and abilityOwners
\* it reads passed as s and owners
collectPairs(selectedAbilityNames, s, owners) ==
    PairLoop(<<>>, PAIRS, SelectedHeroes(s),
             SelectedAbilities(selectedAbilityNames), owners)

(***************************************************************************)
(* renderPairs: the comparator and the stable sort                         *)
(***************************************************************************)
\* collation weight of a character: letters by alphabet position, case
\* ignored; everything else before the letters
LetterWeight ==
    [c \in Range(UpperChars) \cup Range(LowerChars) |->
        CHOOSE i \in 1..26 : c \in {UpperChars[i], LowerChars[i]}]

CollWeight(c) == IF c \in DOMAIN LetterWeight THEN LetterWeight[c] ELSE 0

RECURSIVE localeCompare(_, _)
\* sign of a.localeCompare(b)
localeCompare(a, b) ==
    IF a = <<>> /\ b = <<>> THEN 0
    ELSE IF a = <<>> THEN -1
    ELSE IF b = <<>> THEN 1
    ELSE IF CollWeight(Head(a)) < CollWeight(Head(b)) THEN -1
    ELSE IF CollWeight(Head(a)) > CollWeight(Head(b)) THEN 1
    ELSE localeCompare(Tail(a), Tail(b))

\* sign of the comparator of renderPairs; -Infinity stands for a missing
\* synergy and -Infinity - -Infinity is NaN, which sort treats as 0
PairCmp(a, b, sp) ==
    IF sp.key \in {"a1", "a2"}
    THEN IF sp.dir = "asc" THEN localeCompare(a[sp.key], b[sp.key])
                           ELSE localeCompare(b[sp.key], a[sp.key])
    ELSE LET aNum == a.syn.t = "number"
             bNum == b.syn.t = "number"
             d == IF aNum /\ bNum
                  THEN (IF a.syn.v < b.syn.v THEN -1
                        ELSE IF a.syn.v > b.syn.v THEN 1 ELSE 0)
                  ELSE IF aNum THEN 1
                  ELSE IF bNum THEN -1
                  ELSE 0
         IN  IF sp.dir = "asc" THEN d ELSE -d

RECURSIVE InsertSorted(_, _, _)
InsertSorted(sorted, x, sp) ==
    IF sorted = <<>> THEN <<x>>
    ELSE IF PairCmp(Head(sorted), x, sp) > 0 THEN <<x>> \o sorted
    ELSE <<Head(sorted)>> \o InsertSorted(Tail(sorted), x, sp)

RECURSIVE SortFrom(_, _, _)
SortFrom(sorted, rows, sp) ==
    IF rows = <<>> THEN sorted
    ELSE SortFrom(InsertSorted(sorted, Head(rows), sp), Tail(rows), sp)

\* rows.sort(cmp): Array.prototype.sort is stable
SortRows(rows, sp) == SortFrom(<<>>, rows, sp)

(***************************************************************************)
(* The draft-helper page: rendering                                        *)
(***************************************************************************)
InSel(s, h) == \E i \in DOMAIN s : s[i] = h

\* sel.delete(h)
Delete(s, h) == LET F(x) == x # h IN SelectSeq(s, F)

\* renderTables() for the selection s: cachedAbilities and the owner map are
\* rebuilt.  The three role tables themselves (rows, goodness, their sort
\* state) are not modelled.
renderTables(s) ==
    /\ cachedAbilities' = collectAbilities(s)
    /\ abilityOwners' = BuildOwners(cachedAbilities')

\* renderPairs() for the selection s and the sort state sp; cachedAbilities'
\* and abilityOwners' are the values it reads
renderPairs(s, sp) ==
    /\ pairRows' = collectPairs(SelectedNames(cachedAbilities'), s, abilityOwners')
    /\ tbodyP' = SortRows(pairRows', sp)

\* render(): in the realtime build a local render bumps localRev.  The
\* broadcast it schedules leaves the tab; the channel is not part of this
\* specification.
render(s, sp, isApplyingRemote) ==
    /\ localRev' = IF build = "realtime" /\ ~isApplyingRemote
                   THEN localRev + 1 ELSE localRev
    /\ renderTables(s)
    /\ renderPairs(s, sp)

\* a local render is possible: the revision counter is capped in the model
CanRender == build = "static" \/ localRev < MaxRev

(***************************************************************************)
(* The draft-helper page: handlers                                         *)
(***************************************************************************)
\* what the user can have typed or picked when Add is clicked
AddInputs == DOMAIN DATA \cup {<<>>, Unknown} \cup ObjectPrototypeKeys

\* addBtn.onclick
AddHero(name) ==
    /\ build \in {"static", "realtime"}
    /\ IF \/ name = <<>>
          \/ ~DataTruthy(name)
          \/ InSel(sel, name)
          \/ Len(sel) >= MAX
       THEN UNCHANGED pageVars
       ELSE /\ CanRender
            /\ sel' = Append(sel, name)
            /\ render(sel', sortP, FALSE)
            /\ UNCHANGED <<dataVars, hidden, sortP, lastAppliedRev>>
    /\ UNCHANGED offPage

\* a removeHero that forgets to render
RemoveHero_NoRender(h) ==
    /\ build \in {"static", "realtime"}
    /\ sel' = Delete(sel, h)
    /\ UNCHANGED <<dataVars, hidden, viewVars, sortP, rtVars, offPage>>

\* window.removeHero, called by the remove button of a pill
RemoveHero(h) ==
    /\ build \in {"static", "realtime"}
    /\ CanRender
    /\ sel' = Delete(sel, h)
    /\ render(sel', sortP, FALSE)
    /\ UNCHANGED <<dataVars, hidden, sortP, lastAppliedRev, offPage>>

\* clearBtn.onclick
ClearSel ==
    /\ build \in {"static", "realtime"}
    /\ CanRender
    /\ sel' = <<>>
    /\ render(sel', sortP, FALSE)
    /\ UNCHANGED <<dataVars, hidden, sortP, lastAppliedRev, offPage>>

\* the abilities that have a row, with a delete button, in a role table
ShownAbilities ==
    { cachedAbilities[i].ability : i \in
        { j \in DOMAIN cachedAbilities :
            /\ cachedAbilities[j].kind = "ability"
            /\ Key(cachedAbilities[j].ability) \notin hidden
            /\ cachedAbilities[j].ability \in ROLES } }

\* the static build re-renders the role tables only, the realtime build
\* calls render()
AfterHiddenChange ==
    IF build = "static"
    THEN /\ renderTables(sel)
         /\ UNCHANGED <<pairRows, tbodyP, localRev>>
    ELSE /\ CanRender
         /\ render(sel, sortP, FALSE)

\* hideAbility(name), from a click on a row's delete button
HideAbility(name) ==
    /\ build \in {"static", "realtime"}
    /\ hidden' = hidden \cup {Key(name)}
    /\ AfterHiddenChange
    /\ UNCHANGED <<dataVars, sel, sortP, lastAppliedRev, offPage>>

\* unhideAll, the Restore button
UnhideAll ==
    /\ build \in {"static", "realtime"}
    /\ hidden' = {}
    /\ AfterHiddenChange
    /\ UNCHANGED <<dataVars, sel, sortP, lastAppliedRev, offPage>>

\* a click on a header of a role table (bindSort): the table's sort state
\* changes and renderTables runs
SortTable ==
    /\ build \in {"static", "realtime"}
    /\ renderTables(sel)
    /\ UNCHANGED <<dataVars, sel, hidden, pairRows, tbodyP, sortP, rtVars,
                   offPage>>

\* a click on a header of the combos table
SortPairs(k) ==
    /\ build \in {"static", "realtime"}
    /\ sortP' = IF sortP.key = k
                THEN [key |-> k, dir |-> IF sortP.dir = "asc" THEN "desc" ELSE "asc"]
                ELSE [key |-> k, dir |-> IF k \in {"a1", "a2"} THEN "asc" ELSE "desc"]
    /\ UNCHANGED <<cachedAbilities, abilityOwners>>
    /\ renderPairs(sel, sortP')
    /\ UNCHANGED <<dataVars, sel, hidden, rtVars, offPage>>

(***************************************************************************)
(* The realtime build: the state messages a tab receives                   *)
(***************************************************************************)
CLIENT_ID == "self"
PEER == "peer"

Rev(n) == [num |-> TRUE, n |-> n]
\* a payload whose rev is not a number
NoRev == [num |-> FALSE, n |-> 0]

\* a payload without state
NoState == [v |-> 0, sel |-> <<>>, hidden |-> <<>>, sort |-> <<>>]

State(s, h, so) == [v |-> 1, sel |-> s, hidden |-> h, sort |-> so]

Reverse(s) == [i \in DOMAIN s |-> s[Len(s) + 1 - i]]

Min(a, b) == IF a < b THEN a ELSE b

RECURSIVE SortNames(_)
\* Object.keys(DATA).sort((a,b)=>a.localeCompare(b))
SortNames(S) ==
    IF S = {} THEN <<>>
    ELSE LET m == CHOOSE x \in S : \A y \in S : localeCompare(x, y) <= 0
         IN  <<m>> \o SortNames(S \ {m})

\* the selections a received state can carry: none, every hero in either
\* order, the first MAX heroes, and a list with an unknown and a repeated name
InboundSels ==
    { <<>>, HEROES, Reverse(HEROES), SubSeq(HEROES, 1, Min(MAX, Len(HEROES))),
      <<Unknown, HEROES[1], HEROES[1]>> }

InboundStates ==
    { State(s, <<>>, <<>>) : s \in InboundSels }
    \cup { State(HEROES, <<HexDotted>>, <<>>),
           State(HEROES, <<>>, <<[key |-> "a1", dir |-> "asc"]>>),
           [v |-> 2, sel |-> HEROES, hidden |-> <<>>, sort |-> <<>>],
           NoState }

InboundRevs == { Rev(n) : n \in 1..MaxRev } \cup {NoRev}

\* the payloads of the state messages that reach the tab
InboundMsgs ==
    [source : {PEER}, rev : InboundRevs, state : InboundStates]
    \cup {[source |-> CLIENT_ID, rev |-> Rev(MaxRev), state |-> State(HEROES, <<>>, <<>>)]}

RECURSIVE AddKnown(_, _)
\* (st.sel||[]).forEach(h=>{ if(DATA[h]) sel.add(h); })
AddKnown(s, names) ==
    IF names = <<>> THEN s
    ELSE AddKnown(IF DataTruthy(Head(names)) /\ ~InSel(s, Head(names))
                  THEN Append(s, Head(names)) ELSE s,
                  Tail(names))

\* applyState(st); the sort state of the role tables is not modelled
applyState(st) ==
    IF st.v # 1
    THEN UNCHANGED <<sel, hidden, sortP>>
    ELSE /\ sel' = AddKnown(<<>>, st.sel)
         /\ hidden' = { Key(st.hidden[i]) : i \in DOMAIN st.hidden }
         /\ sortP' = IF st.sort # <<>> THEN st.sort[1] ELSE sortP

\* channel.on("broadcast", {event:"state"}, ...)
OnState(msg) ==
    /\ build = "realtime"
    /\ IF \/ msg.state = NoState
          \/ msg.source = CLIENT_ID
          \/ (msg.rev.num /\ msg.rev.n <= lastAppliedRev)
       THEN UNCHANGED pageVars
       ELSE /\ lastAppliedRev' = IF msg.rev.num THEN msg.rev.n ELSE lastAppliedRev
            /\ applyState(msg.state)
            /\ render(sel', sortP', TRUE)
            /\ UNCHANGED dataVars
    /\ UNCHANGED offPage

(***************************************************************************)
(* Spec: the page after boot, under every sequence of handler calls        *)
(***************************************************************************)
\* the page constants and the state after the boot render() of an empty
\* selection; the realtime build's boot render already bumps localRev
PageBoot(cache, b) ==
    /\ build = b
    /\ DATA = load_high_skill(cache)
    /\ HEROES = SortNames(DOMAIN DATA)
    /\ ROLES = cache.roles
    /\ PAIRS = cache.pairs
    /\ sel = <<>>
    /\ hidden = {}
    /\ cachedAbilities = <<>>
    /\ abilityOwners = EmptyMap
    /\ pairRows = <<>>
    /\ tbodyP = <<>>
    /\ sortP = [key |-> "syn", dir |-> "desc"]
    /\ localRev = IF b = "realtime" THEN 1 ELSE 0
    /\ lastAppliedRev = 0

CanonIdle ==
    /\ cs = <<>>
    /\ cv = <<>>
    /\ key1 = <<>>
    /\ key2 = <<>>
    /\ rekey = <<>>

Init ==
    /\ CanonIdle
    /\ ScriptsIdle
    /\ \E cache \in SmallCaches : \E b \in {"static", "realtime"} :
           PageBoot(cache, b)

Next ==
    \/ \E name \in AddInputs : AddHero(name)
    \/ \E h \in Range(sel) : RemoveHero(h)
    \/ ClearSel
    \/ \E name \in ShownAbilities : HideAbility(name)
    \/ UnhideAll
    \/ SortTable
    \/ \E k \in {"a1", "a2", "syn"} : SortPairs(k)
    \/ \E msg \in InboundMsgs : OnState(msg)

Spec == Init /\ [][Next]_vars

\* the realtime page built from a cache with more than MAX heroes
InitWide ==
    /\ CanonIdle
    /\ ScriptsIdle
    /\ PageBoot(WideCache, "realtime")

SpecWide == InitWide /\ [][Next]_vars

(***************************************************************************)
(* SpecCanon: canon applied to bounded raw strings and to their variants   *)
(***************************************************************************)
\* the characters raw strings are drawn from; their variants also reach
\* U+2018, U+201D, U+2014 and the tab
CanonAlphabet ==
    {"a", "A", "'", RSQUO, "\"", LDQUO, "-", ENDASH, ".", " ", TMSIGN}

RECURSIVE StringsUpTo(_)
StringsUpTo(n) ==
    IF n = 0 THEN {<<>>}
    ELSE LET S == StringsUpTo(n - 1)
         IN  S \cup { Append(s, c) : s \in {x \in S : Len(x) = n - 1},
                                      c \in CanonAlphabet }

\* value of a key that has not been computed yet
NONE == <<"<none>">>

\* the spellings of one character: the two cases of a letter, the ASCII and
\* typographic forms of a quote, the hyphen and the dashes
CaseForms == { {"a", "A"} }

QuoteForms == { {"'", LSQUO, RSQUO}, {"\"", LDQUO, RDQUO} }

DashForms == { {"-", ENDASH, EMDASH} }

ReplaceAt(s, i, c) == [s EXCEPT ![i] = c]

InsertAt(s, i, c) == SubSeq(s, 1, i) \o <<c>> \o SubSeq(s, i + 1, Len(s))

RemoveAt(s, i) == SubSeq(s, 1, i - 1) \o SubSeq(s, i + 1, Len(s))

InitCanon ==
    /\ cs \in StringsUpTo(MaxStrLen)
    /\ cv = cs
    /\ key1 = NONE
    /\ key2 = NONE
    /\ rekey = NONE
    /\ PageBoot(ExampleCache, "static")
    /\ ScriptsIdle

\* the page computes the lookup key of the raw string and of its variant
Canonicalize ==
    /\ key1 = NONE
    /\ key1' = canon(cs)
    /\ key2' = canon(cv)
    /\ UNCHANGED <<cs, cv, rekey, offCanon>>

\* a key is canonicalised again (canon is applied to stored keys, e.g. to the
\* hidden names of a received state)
Recanonicalize ==
    /\ key1 # NONE
    /\ rekey = NONE
    /\ rekey' = canon(key1)
    /\ UNCHANGED <<cs, cv, key1, key2, offCanon>>

VaryTo(v) ==
    /\ key1 # NONE
    /\ cv' = v
    /\ key2' = canon(v)
    /\ UNCHANGED <<cs, key1, rekey, offCanon>>

\* one character of the variant is respelled within one of the forms
Respell(forms) ==
    \E i \in DOMAIN cv : \E F \in forms :
        /\ cv[i] \in F
        /\ \E c \in F \ {cv[i]} : VaryTo(ReplaceAt(cv, i, c))

VaryCase == Respell(CaseForms)

VaryQuote == Respell(QuoteForms)

VaryDash == Respell(DashForms)

\* a run of whitespace grows by one character
GrowSpace ==
    \E i \in DOMAIN cv :
        /\ cv[i] \in SpaceChars
        /\ Len(cv) <= MaxStrLen
        /\ \E c \in SpaceChars : VaryTo(InsertAt(cv, i, c))

\* a run of two or more whitespace characters shrinks by one
ShrinkSpace ==
    \E i \in DOMAIN cv :
        /\ cv[i] \in SpaceChars
        /\ i < Len(cv)
        /\ cv[i + 1] \in SpaceChars
        /\ VaryTo(RemoveAt(cv, i))

NextCanon ==
    \/ Canonicalize
    \/ Recanonicalize
    \/ VaryCase
    \/ VaryQuote
    \/ VaryDash
    \/ GrowSpace
    \/ ShrinkSpace

SpecCanon == InitCanon /\ [][NextCanon]_vars

(***************************************************************************)
(* Properties                                                              *)
(***************************************************************************)
\* hero h exposes an ability whose canonical name is k
Exposes(h, k) ==
    \E i \in DOMAIN AbilitiesOf(h) : Key(AbilitiesOf(h)[i]) = k

\* hero h is the token or exposes it
Covers(h, token) == Key(h) = Key(token) \/ Exposes(h, Key(token))

\* the decision of collectPairs on record p in the current state
Kept(p) ==
    PairOk(p, SelectedHeroes(sel),
           SelectedAbilities(SelectedNames(cachedAbilities)), abilityOwners)

\* the records with two names and two different canonical tokens
Proper(p) == ~MissingName(p) /\ Key(p.a1) # Key(p.a2)

\* C1: a record whose two tokens are abilities exposed by selected heroes is
\* kept exactly when two different selected heroes expose the first and the
\* second ability
C1_AbilityPairKeptIffCrossHero ==
    \A i \in DOMAIN PAIRS :
        LET p == PAIRS[i]
            k1 == Key(p.a1)
            k2 == Key(p.a2)
        IN  ( /\ Proper(p)
              /\ \E h \in Range(sel) : Exposes(h, k1)
              /\ \E h \in Range(sel) : Exposes(h, k2) )
            => ( Kept(p) <=>
                 \E h1, h2 \in Range(sel) :
                     h1 # h2 /\ Exposes(h1, k1) /\ Exposes(h2, k2) )

\* hero token kh with ability token ka: kept exactly when a selected hero
\* other than kh exposes ka
HeroAbilityRule(p, kh, ka) ==
    ( kh \in SelectedHeroes(sel) /\ ka \notin SelectedHeroes(sel) )
    => ( Kept(p) <=>
         \E h \in Range(sel) : Key(h) # kh /\ Exposes(h, ka) )

\* C2: a record of a selected hero H and an ability, in either order, is kept
\* exactly when a selected hero different from H exposes the ability
C2_HeroAbilityKeptIffOtherOwner ==
    \A i \in DOMAIN PAIRS :
        LET p == PAIRS[i]
        IN  Proper(p) =>
                /\ HeroAbilityRule(p, Key(p.a1), Key(p.a2))
                /\ HeroAbilityRule(p, Key(p.a2), Key(p.a1))

\* neither the name of a selected hero nor an ability of a selected hero
Unresolved(k) ==
    /\ k \notin SelectedHeroes(sel)
    /\ ~\E h \in Range(sel) : Exposes(h, k)

\* C3: a record of two selected hero names is dropped, and so is a record
\* with an unresolved token
C3_HeroHeroAndUnresolvedDropped ==
    \A i \in DOMAIN PAIRS :
        LET p == PAIRS[i]
            k1 == Key(p.a1)
            k2 == Key(p.a2)
        IN  /\ (k1 \in SelectedHeroes(sel) /\ k2 \in SelectedHeroes(sel))
                => ~Kept(p)
            /\ (Unresolved(k1) \/ Unresolved(k2)) => ~Kept(p)

\* C4: no row returned by collectPairs or shown in the combos table has two
\* tokens of the same canonical form
C4_NoSelfPair ==
    /\ \A j \in DOMAIN pairRows : canon(pairRows[j].a1) # canon(pairRows[j].a2)
    /\ \A j \in DOMAIN tbodyP : canon(tbodyP[j].a1) # canon(tbodyP[j].a2)

\* a record of two raw names that differ and canonicalise alike, of an
\* ability with two selected owners, was offered to collectPairs, which
\* returned other rows
C4_Witness ==
    /\ pairRows # <<>>
    /\ \E i \in DOMAIN PAIRS :
           /\ PAIRS[i].a1 # PAIRS[i].a2
           /\ Key(PAIRS[i].a1) = Key(PAIRS[i].a2)
           /\ \E h1, h2 \in Range(sel) :
                  h1 # h2 /\ Exposes(h1, Key(PAIRS[i].a1))
                          /\ Exposes(h2, Key(PAIRS[i].a1))

\* the validity rule on the owner map: the selected owners of a token
OwnersIn(k) ==
    IF k \in DOMAIN abilityOwners
    THEN abilityOwners[k] \cap SelectedHeroes(sel) ELSE {}

Valid(p) ==
    LET k1 == Key(p.a1)
        k2 == Key(p.a2)
        ab1 == k1 \in DOMAIN abilityOwners
        ab2 == k2 \in DOMAIN abilityOwners
    IN  /\ Proper(p)
        /\ \/ ab1 /\ ab2 /\ \E h1 \in OwnersIn(k1) : OwnersIn(k2) \ {h1} # {}
           \/ ~ab1 /\ ab2 /\ k1 \in SelectedHeroes(sel) /\ OwnersIn(k2) \ {k1} # {}
           \/ ab1 /\ ~ab2 /\ k2 \in SelectedHeroes(sel) /\ OwnersIn(k1) \ {k2} # {}

ValidIndexes == { i \in DOMAIN PAIRS : Valid(PAIRS[i]) }

\* the j-th valid record, in input order
NthValid(j) ==
    PAIRS[CHOOSE i \in ValidIndexes :
            Cardinality({x \in ValidIndexes : x <= i}) = j]

C6_CombosAreCrossHero ==
    /\ \A j \in DOMAIN tbodyP :
           \E h1, h2 \in Range(sel) :
               /\ h1 # h2
               /\ Covers(h1, tbodyP[j].a1)
               /\ Covers(h2, tbodyP[j].a2)
    /\ abilityOwners = BuildOwners(collectAbilities(sel))

\* the realtime page shows combos after a local change, a received state
\* and a hidden ability
C6_Witness ==
    /\ build = "realtime"
    /\ lastAppliedRev > 0
    /\ localRev > 1
    /\ hidden # {}
    /\ tbodyP # <<>>

\* C7: the owner map has one key per canonical ability name of a selected
\* hero, mapped to every selected hero that exposes it
C7_OwnersOfEveryKey ==
    LET keys == UNION { { Key(AbilitiesOf(h)[i]) : i \in DOMAIN AbilitiesOf(h) }
                        : h \in Range(sel) }
    IN  abilityOwners =
            [k \in keys |-> { Key(h) : h \in { x \in Range(sel) : Exposes(x, k) } }]

\* C8: canon applied to a canonical key returns the key
C8_CanonIdempotent == rekey # NONE => rekey = key1

\* C9: a string and its variants in letter case, quote style, dash style and
\* length of whitespace runs have the same canonical key
C9_VariantsShareKey == key2 = key1

\* a variant that differs from the raw string was canonicalised to a
\* non-empty key
C9_Witness ==
    /\ key2 # NONE
    /\ cv # cs
    /\ key2 # <<>>

\* C10: the selection holds at most MAX heroes, all of them keys of DATA
C10_SelectionBounded ==
    /\ Len(sel) <= MAX
    /\ Range(sel) \subseteq DOMAIN DATA

(***************************************************************************)
(* Part 3: adjusted_score of the stat reporters (hero_stats, team_analyzer)*)
(*                                                                         *)
(* A float is modelled in fixed point: the integer v stands for v / Scale. *)
(* gamma is given in hundredths.                                           *)
(***************************************************************************)
\* largest number of games drawn
MaxGames == 8

\* the fixed-point unit
Scale == 10000

\* math.log(n) for n = 1 .. 20
LogTable ==
    <<0, 6931, 10986, 13863, 16094, 17918, 19459, 20794, 21972, 23026,
      23979, 24849, 25649, 26391, 27081, 27726, 28332, 28904, 29444, 29957>>

\* math.log(n) ** 0.69 for n = 1 .. 20
LogPowDefault ==
    <<0, 7766, 10670, 12528, 13887, 14954, 15831, 16572, 17214, 17780,
      18284, 18740, 19154, 19534, 19885, 20211, 20515, 20800, 21067, 21320>>

\* the exponents drawn: 0, the default 0.69, 1, 2 and -1
Gammas == {0, 69, 100, 200, -100}

\* math.log(n) ** gamma
LogPow(n, g) ==
    CASE g = 0 -> Scale
      [] g = 69 -> LogPowDefault[n]
      [] g = 100 -> LogTable[n]
      [] g = 200 -> (LogTable[n] * LogTable[n]) \div Scale
      [] g = -100 -> (Scale * Scale) \div LogTable[n]

\* the score with the win rate replaced by the loss rate
adjusted_score_LossRate(w, g, gam) ==
    IF g = 0
    THEN 0
    ELSE ((((g - w) * Scale) \div g) * LogPow(g + 1, gam)) \div Scale

adjusted_score(w, g, gam) ==
    IF g = 0
    THEN 0
    ELSE LET winrate == (w * Scale) \div g
         IN (winrate * LogPow(g + 1, gam)) \div Scale

\* adjusted_score is called on a player's record with no win
InitScore ==
    /\ CanonIdle
    /\ PageBoot(ExampleCache, "static")
    /\ IdleBut("score")
    /\ wins = 0
    /\ games \in 0 .. MaxGames
    /\ gamma \in Gammas
    /\ score = adjusted_score(0, games, gamma)
    /\ prevScore = score

\* the same player with one more of the games won
ScoreOneMoreWin ==
    /\ wins < games
    /\ wins' = wins + 1
    /\ prevScore' = score
    /\ score' = adjusted_score(wins + 1, games, gamma)
    /\ UNCHANGED <<games, gamma, offScore>>

\* the same player with one more game, lost
ScoreOneMoreLoss ==
    /\ games < MaxGames
    /\ games' = games + 1
    /\ score' = adjusted_score(wins, games + 1, gamma)
    /\ prevScore' = score'
    /\ UNCHANGED <<wins, gamma, offScore>>

NextScore ==
    \/ ScoreOneMoreWin
    \/ ScoreOneMoreLoss

SpecScore == InitScore /\ [][NextScore]_vars

\* C11: adjusted_score is 0 when games = 0, and for fixed games >= 1 and
\* gamma it does not decrease when wins grows by one within 0 .. games
\* (prevScore is the score of one win less, or the score itself after a
\* change of games).
C11_ScoreZeroAndMonotone ==
    /\ games = 0 => score = 0
    /\ prevScore <= score

\* a player with two or more games, all won, whose last win raised the score
C11_Witness ==
    /\ games >= 2
    /\ wins = games
    /\ prevScore < score

(***************************************************************************)
(* Part 4: the windrun.io scraper (scrape_ability_by_hero)                 *)
(*                                                                         *)
(* A page is the list of its <table> elements in find_all order.  A table  *)
(* is [text, anchors]: text says whether its text holds the required       *)
(* header text, anchors are its <a> elements with a /heroes/<digits> or    *)
(* /abilities/<digits> href, in document order.  An anchor is              *)
(* [kind, id, text, td, rel]: the number in the href, the link text, td    *)
(* whether it has a <td> ancestor, rel whether the href starts with the    *)
(* path (an absolute URL does not).                                        *)
(***************************************************************************)
\* most tables drawn for a page
MaxTables == 2

\* most anchors drawn for the data table
MaxLinks == 3

HeroLink(id, text, td) ==
    [kind |-> "hero", id |-> id, text |-> text, td |-> td, rel |-> TRUE]

AbilityLink(id, text) ==
    [kind |-> "ability", id |-> id, text |-> text, td |-> TRUE, rel |-> TRUE]

\* t.find("a", href=re.compile(r"/heroes/\d+")): the pattern is searched
\* anywhere in the href, so an absolute URL counts
HasLink(t, kind) == \E i \in DOMAIN t.anchors : t.anchors[i].kind = kind

Points(b, n) == IF b THEN n ELSE 0

\* the score _pick_table_with_text gives a table
ScoreWithText(t) ==
    Points(t.text, 3) + Points(HasLink(t, "ability"), 2)
        + Points(HasLink(t, "hero"), 1)

\* the score _pick_data_table_byhero gives a table
ScoreByHero(t) ==
    Points(HasLink(t, "hero"), 2) + Points(HasLink(t, "ability"), 2)
        + Points(t.text, 1)

\* the loop over soup.find_all("table"): the first table of the best score;
\* 0 stands for None
RECURSIVE PickLoop(_, _, _, _)
PickLoop(scores, i, best, best_score) ==
    IF i > Len(scores)
    THEN IF best_score >= 3 THEN best ELSE 0
    ELSE IF scores[i] > best_score
         THEN PickLoop(scores, i + 1, i, scores[i])
         ELSE PickLoop(scores, i + 1, best, best_score)

_pick_table_with_text(soup) ==
    PickLoop([i \in DOMAIN soup |-> ScoreWithText(soup[i])], 1, 0, -1)

_pick_data_table_byhero(soup) ==
    PickLoop([i \in DOMAIN soup |-> ScoreByHero(soup[i])], 1, 0, -1)

\* table.find_all("a", href=re.compile(r"^/(heroes|abilities)/\d+"))
RelLinks(t) == SelectSeq(t.anchors, LAMBDA a : a.rel)

\* the hero link branch of the scan: st is [current_hero, heroes], with
\* current_hero <<>> for None and <<name>> for a name
ScanHero(st, link) ==
    IF link.td /\ (link.id = 0 \/ link.text = "")
    THEN st
    ELSE [current_hero |-> <<link.text>>,
          heroes |->
              IF link.text \in DOMAIN st.heroes
              THEN LET h == st.heroes[link.text]
                   IN MapSet(st.heroes, link.text,
                             [h EXCEPT !.hero_id =
                                  IF @ = 0 THEN link.id ELSE @])
              ELSE MapSet(st.heroes, link.text,
                          [hero_id |-> link.id, abilities |-> <<>>])]

\* not current_hero: None or the empty string
NoCurrentHero(st) ==
    \/ st.current_hero = <<>>
    \/ st.current_hero[1] = ""

AbilityIds(abilities) == { abilities[k].ability_id : k \in DOMAIN abilities }

\* the scan with the per-hero dedupe left out
ScanAbility_NoDedupe(st, link) ==
    IF NoCurrentHero(st) \/ link.id = 0 \/ link.text = ""
    THEN st
    ELSE LET name == st.current_hero[1]
             h == st.heroes[name]
         IN [st EXCEPT !.heroes = MapSet(st.heroes, name,
                [h EXCEPT !.abilities = Append(@,
                    [ability_id |-> link.id, ability_name |-> link.text])])]

\* the ability link branch of the scan
ScanAbility(st, link) ==
    IF NoCurrentHero(st) \/ link.id = 0 \/ link.text = ""
    THEN st
    ELSE LET name == st.current_hero[1]
             h == st.heroes[name]
         IN IF link.id \in AbilityIds(h.abilities)
            THEN st
            ELSE [st EXCEPT !.heroes = MapSet(st.heroes, name,
                     [h EXCEPT !.abilities = Append(@,
                         [ability_id |-> link.id,
                          ability_name |-> link.text])])]

\* for link in links
RECURSIVE ScanLinks(_, _, _)
ScanLinks(links, i, st) ==
    IF i > Len(links)
    THEN st
    ELSE ScanLinks(links, i + 1,
                   IF links[i].kind = "hero"
                   THEN ScanHero(st, links[i])
                   ELSE ScanAbility(st, links[i]))

ScanStart == [current_hero |-> <<>>, heroes |-> EmptyMap]

\* heroes = {h: v for h, v in heroes.items() if v.get("abilities")}
KeepWithAbilities(hs) ==
    [h \in { x \in DOMAIN hs : hs[x].abilities # <<>> } |-> hs[h]]

Raised(msg) == [ok |-> FALSE, error |-> msg, value |-> EmptyMap]

Returned(v) == [ok |-> TRUE, error |-> "", value |-> v]

\* parse_by_hero with the final "Parsed zero heroes" check left out
parse_by_hero_NoCheck(soup) ==
    LET table == _pick_data_table_byhero(soup)
    IN IF table = 0
       THEN Raised("Could not find the data table on ability-by-hero page.")
       ELSE Returned(KeepWithAbilities(
                ScanLinks(RelLinks(soup[table]), 1, ScanStart).heroes))

parse_by_hero(soup) ==
    LET table == _pick_data_table_byhero(soup)
    IN IF table = 0
       THEN Raised("Could not find the data table on ability-by-hero page.")
       ELSE LET heroes_kept == KeepWithAbilities(
                    ScanLinks(RelLinks(soup[table]), 1, ScanStart).heroes)
            IN IF DOMAIN heroes_kept = {}
               THEN Raised("Parsed zero heroes.")
               ELSE Returned(heroes_kept)

\* ---- the ability-high-skill page ----
\* The page is [table, thead, win_col, pick_col, rows]: whether it has a
\* <table>, a <thead>, a header holding "HS Win %" and one holding
\* "HS Pick #", and the <tr> rows.  A row is [cells, link, exact, abil_id,
\* name]: whether it has enough cells, whether it has an <a> whose href
\* starts with /abilities/<number>, whether that href is exactly that, the
\* number and the link text.
HsRow(abil_id, name) ==
    [cells |-> TRUE, link |-> TRUE, exact |-> TRUE, abil_id |-> abil_id,
     name |-> name]

HsPage(rows) ==
    [table |-> TRUE, thead |-> TRUE, win_col |-> TRUE, pick_col |-> TRUE,
     rows |-> rows]

\* the rows parse_hs_table keeps
HsRowKept(row) == row.cells /\ row.link /\ row.name # "" /\ row.exact

\* for tr in tbody.find_all("tr"): acc is [abilities, models]
RECURSIVE HsRows(_, _, _)
HsRows(rows, i, acc) ==
    IF i > Len(rows)
    THEN acc
    ELSE LET row == rows[i]
         IN HsRows(rows, i + 1,
                IF ~HsRowKept(row)
                THEN acc
                ELSE IF row.abil_id < 0
                     THEN [acc EXCEPT !.models =
                              MapSet(@, row.name, row.abil_id)]
                     ELSE [acc EXCEPT !.abilities =
                              MapSet(@, row.abil_id, row.name)])

\* parse_hs_table with the final "Parsed zero HS abilities" check left out
parse_hs_table_NoCheck(html) ==
    IF ~html.table
    THEN Raised("Could not find table on ability-high-skill page")
    ELSE IF ~html.thead
    THEN Raised("No thead found")
    ELSE IF ~html.win_col \/ ~html.pick_col
    THEN Raised("Header not found")
    ELSE Returned(HsRows(html.rows, 1,
                         [abilities |-> EmptyMap, models |-> EmptyMap]))

parse_hs_table(html) ==
    IF ~html.table
    THEN Raised("Could not find table on ability-high-skill page")
    ELSE IF ~html.thead
    THEN Raised("No thead found")
    ELSE IF ~html.win_col \/ ~html.pick_col
    THEN Raised("Header not found")
    ELSE LET acc == HsRows(html.rows, 1,
                           [abilities |-> EmptyMap, models |-> EmptyMap])
         IN IF DOMAIN acc.abilities = {}
            THEN Raised("Parsed zero HS abilities")
            ELSE Returned(acc)

\* combine: an ability takes the name of the high-skill page when its id is
\* listed there
combine(hs, abilities) ==
    [h \in DOMAIN hs |->
        [hero_id |-> hs[h].hero_id,
         abilities |->
             [k \in DOMAIN hs[h].abilities |->
                 LET a == hs[h].abilities[k]
                 IN [ability_id |-> a.ability_id,
                     ability_name |->
                         IF a.ability_id \in DOMAIN abilities
                         THEN abilities[a.ability_id]
                         ELSE a.ability_name]]]]

\* ---- the files and the inputs ----
NoFile == [exists |-> FALSE, cached_at |-> "", data |-> EmptyMap]

\* the cache file an earlier run wrote
OldCache ==
    [exists |-> TRUE, cached_at |-> "earlier",
     data |-> MapSet(EmptyMap, "Axe",
                  [hero_id |-> 9,
                   abilities |-> <<[ability_id |-> 4,
                                    ability_name |-> "Counter Helix"]>>])]

\* save_cache
save_cache(data) == [exists |-> TRUE, cached_at |-> "now", data |-> data]

GoodHs == HsPage(<<HsRow(5, "Hex"), HsRow(-35, "Lion")>>)

HsPages ==
    { GoodHs,
      HsPage(<<>>),
      HsPage(<<HsRow(-35, "Lion")>>),
      HsPage(<<HsRow(0, "Base"), HsRow(6, "Wards")>>),
      HsPage(<<HsRow(5, "")>>),
      HsPage(<<[HsRow(5, "Hex") EXCEPT !.cells = FALSE]>>),
      HsPage(<<[HsRow(5, "Hex") EXCEPT !.link = FALSE]>>),
      HsPage(<<[HsRow(5, "Hex") EXCEPT !.exact = FALSE], HsRow(-35, "Lion")>>),
      [GoodHs EXCEPT !.table = FALSE],
      [GoodHs EXCEPT !.thead = FALSE],
      [GoodHs EXCEPT !.win_col = FALSE],
      [GoodHs EXCEPT !.pick_col = FALSE] }

\* the anchors drawn for the data table: heroes with a name and an id, a
\* picture link without text, hero links outside a cell without text or with
\* the id 0, abilities, an ability link repeated with another text, ability
\* links with the id 0 or without text, and an absolute URL
LinkPool ==
    { HeroLink(1, "Ursa", TRUE),
      HeroLink(2, "Lion", TRUE),
      HeroLink(2, "", TRUE),
      HeroLink(3, "", FALSE),
      HeroLink(0, "Zero", FALSE),
      AbilityLink(5, "Hex"),
      AbilityLink(5, "Hex (2)"),
      AbilityLink(6, "Wards"),
      AbilityLink(0, "Nil"),
      AbilityLink(7, ""),
      [HeroLink(1, "Ursa", TRUE) EXCEPT !.rel = FALSE] }

SeqsUpTo(S, n) == UNION { [1 .. k -> S] : k \in 0 .. n }

\* pages of one table that carries the header text
ScanPages ==
    { <<[text |-> TRUE, anchors |-> a]>> : a \in SeqsUpTo(LinkPool, MaxLinks) }

\* the tables drawn for the table selection: each with or without the header
\* text, a hero link and an ability link
TablePool ==
    { [text |-> x, anchors |-> a] :
        x \in BOOLEAN,
        a \in { <<>>, <<HeroLink(1, "Ursa", TRUE)>>, <<AbilityLink(5, "Hex")>>,
                <<HeroLink(1, "Ursa", TRUE), AbilityLink(5, "Hex")>> } }

PickPages == SeqsUpTo(TablePool, MaxTables)

ExampleByHero ==
    <<[text |-> TRUE,
       anchors |-> <<HeroLink(2, "Lion", TRUE), AbilityLink(5, "Hex")>>]>>

\* a page whose data table repeats an ability under one hero and lists it
\* again under another hero
RepeatPage ==
    <<[text |-> TRUE,
       anchors |-> <<HeroLink(1, "Ursa", TRUE), AbilityLink(5, "Hex"),
                     AbilityLink(5, "Hex (2)"), HeroLink(2, "Lion", TRUE),
                     AbilityLink(5, "Hex")>>]>>

\* ---- main ----
InitScrape ==
    /\ CanonIdle
    /\ PageBoot(ExampleCache, "static")
    /\ IdleBut("scrape")
    /\ \/ /\ byhero_html \in ScanPages \cup PickPages \cup {RepeatPage}
          /\ hs_html = GoodHs
          /\ cache_file = OldCache
       \/ /\ byhero_html = ExampleByHero
          /\ hs_html \in HsPages
          /\ cache_file \in {NoFile, OldCache}
    /\ scrape_pc = "start"
    /\ hs_parsed = [abilities |-> EmptyMap, models |-> EmptyMap]
    /\ heroes_out = EmptyMap
    /\ byhero_debug = FALSE
    /\ picked = <<>>
    /\ scrape_error = ""

Abort(msg) ==
    /\ scrape_pc' = "failed"
    /\ scrape_error' = msg

\* fetch_html twice, then byhero_debug.html is written; raise_for_status or
\* the transport may raise in either fetch
FetchPages ==
    /\ scrape_pc = "start"
    /\ \/ /\ scrape_pc' = "fetched"
          /\ byhero_debug' = TRUE
          /\ UNCHANGED scrape_error
       \/ /\ Abort("fetch_html failed")
          /\ UNCHANGED byhero_debug
    /\ UNCHANGED <<hs_html, byhero_html, hs_parsed, heroes_out, cache_file,
                   picked, offScrape>>

\* hs_abilities, hs_models = parse_hs_table(hs_html)
ParseHs ==
    /\ scrape_pc = "fetched"
    /\ LET r == parse_hs_table(hs_html)
       IN IF r.ok
          THEN /\ hs_parsed' = r.value
               /\ scrape_pc' = "hs_parsed"
               /\ UNCHANGED scrape_error
          ELSE /\ Abort(r.error)
               /\ UNCHANGED hs_parsed
    /\ UNCHANGED <<hs_html, byhero_html, heroes_out, cache_file, byhero_debug,
                   picked, offScrape>>

\* heroes = parse_by_hero(byhero_html)
ParseByHero ==
    /\ scrape_pc = "hs_parsed"
    /\ LET r == parse_by_hero(byhero_html)
       IN IF r.ok
          THEN /\ heroes_out' = r.value
               /\ scrape_pc' = "byhero_parsed"
               /\ UNCHANGED scrape_error
          ELSE /\ Abort(r.error)
               /\ UNCHANGED heroes_out
    /\ UNCHANGED <<hs_html, byhero_html, hs_parsed, cache_file, byhero_debug,
                   picked, offScrape>>

\* combined = combine(...); save_cache(combined)
CombineAndSave ==
    /\ scrape_pc = "byhero_parsed"
    /\ cache_file' = save_cache(combine(heroes_out, hs_parsed.abilities))
    /\ scrape_pc' = "saved"
    /\ UNCHANGED <<hs_html, byhero_html, hs_parsed, heroes_out, byhero_debug,
                   picked, scrape_error, offScrape>>

\* the two table selections applied to the tables of the by-hero page
ApplyPickers ==
    /\ scrape_pc = "start"
    /\ picked = <<>>
    /\ picked' = <<[with_text |-> _pick_table_with_text(byhero_html),
                    byhero |-> _pick_data_table_byhero(byhero_html)]>>
    /\ UNCHANGED <<hs_html, byhero_html, scrape_pc, hs_parsed, heroes_out,
                   cache_file, byhero_debug, scrape_error, offScrape>>

NextScrape ==
    \/ FetchPages
    \/ ParseHs
    \/ ParseByHero
    \/ CombineAndSave
    \/ ApplyPickers

SpecScrape == InitScrape /\ [][NextScrape]_vars

HasAnyLink(t) == HasLink(t, "hero") \/ HasLink(t, "ability")

\* C12: neither table selection returns a table that has no hero link and no
\* ability link, whatever its text; with no qualifying table they return None.
C12_NeverPicksLinklessTable ==
    picked # <<>> =>
        /\ picked[1].with_text # 0 =>
               HasAnyLink(byhero_html[picked[1].with_text])
        /\ picked[1].byhero # 0 =>
               HasAnyLink(byhero_html[picked[1].byhero])
        /\ (\A i \in DOMAIN byhero_html : ~HasAnyLink(byhero_html[i])) =>
               picked[1] = [with_text |-> 0, byhero |-> 0]

ParsedByHero == scrape_pc \in {"byhero_parsed", "saved"}

ParsedHs == scrape_pc \in {"hs_parsed", "byhero_parsed", "saved"}

NoHeroIsEmpty(hs) ==
    /\ DOMAIN hs # {}
    /\ \A h \in DOMAIN hs : hs[h].abilities # <<>>

\* C13: main gets past parse_hs_table only with one ability or more, past
\* parse_by_hero only with a data table and one hero or more, each with a
\* non-empty ability list; a run that failed left the cache file as it was,
\* and a cache file written by the run holds heroes that all have abilities.
C13_NoEmptyDataSaved ==
    /\ ParsedHs => DOMAIN hs_parsed.abilities # {}
    /\ ParsedByHero =>
           /\ _pick_data_table_byhero(byhero_html) # 0
           /\ NoHeroIsEmpty(heroes_out)
    /\ scrape_pc = "failed" => cache_file \in {NoFile, OldCache}
    /\ scrape_pc \in {"start", "fetched", "hs_parsed", "byhero_parsed"} =>
           cache_file \in {NoFile, OldCache}
    /\ scrape_pc = "saved" =>
           /\ cache_file.cached_at = "now"
           /\ NoHeroIsEmpty(cache_file.data)

\* a data table was found but no hero got an ability: main stopped and the
\* earlier cache file is still there
C13_Witness ==
    /\ scrape_pc = "failed"
    /\ scrape_error = "Parsed zero heroes."
    /\ _pick_data_table_byhero(byhero_html) # 0
    /\ cache_file = OldCache

\* the anchors of the data table that the scan visits
DataLinks == RelLinks(byhero_html[_pick_data_table_byhero(byhero_html)])

ValidAbility(a) == a.kind = "ability" /\ a.id # 0 /\ a.text # ""

\* the position of the hero anchor that most recently precedes position i
\* (0: none)
PrevHeroAnchor(links, i) ==
    LET js == { j \in 1 .. i - 1 : links[j].kind = "hero" }
    IN IF js = {} THEN 0 ELSE CHOOSE j \in js : \A k \in js : k <= j

Recorded(hs, h, id) ==
    /\ h \in DOMAIN hs
    /\ id \in AbilityIds(hs[h].abilities)

LinkTexts(links) == { links[i].text : i \in DOMAIN links }

LinkIds(links) == { links[i].id : i \in DOMAIN links }

\* C14: an ability is recorded under a hero exactly when one of its valid
\* anchors has, as the most recent hero anchor before it, an anchor of that
\* hero; ability anchors before the first hero anchor are recorded nowhere.
C14_AbilityUnderPrecedingHero ==
    ParsedByHero =>
        \A h \in LinkTexts(DataLinks) \cup DOMAIN heroes_out :
            \A id \in LinkIds(DataLinks) :
                Recorded(heroes_out, h, id) <=>
                    \E i \in DOMAIN DataLinks :
                        /\ ValidAbility(DataLinks[i])
                        /\ DataLinks[i].id = id
                        /\ PrevHeroAnchor(DataLinks, i) # 0
                        /\ DataLinks[PrevHeroAnchor(DataLinks, i)].text = h

\* the hero the scan holds when it reaches position i
CursorAt(links, i) ==
    ScanLinks(SubSeq(links, 1, i - 1), 1, ScanStart).current_hero

\* the valid ability anchors the scan meets under hero h
AnchorsUnder(links, h) ==
    { i \in DOMAIN links :
        ValidAbility(links[i]) /\ CursorAt(links, i) = <<h>> }

\* those that are the first of their id under h
FirstUnder(links, h) ==
    { i \in AnchorsUnder(links, h) :
        \A j \in AnchorsUnder(links, h) :
            links[j].id = links[i].id => i <= j }

EntryOf(a) == [ability_id |-> a.id, ability_name |-> a.text]

\* C15: no hero's list holds an ability_id twice; the entries of a hero are
\* the first anchors of each id met under that hero, later ones are dropped.
C15_AbilitiesUniquePerHero ==
    ParsedByHero =>
        \A h \in DOMAIN heroes_out :
            LET abilities == heroes_out[h].abilities
            IN /\ \A k, l \in DOMAIN abilities :
                      abilities[k].ability_id = abilities[l].ability_id
                          => k = l
               /\ \A i \in FirstUnder(DataLinks, h) :
                      \E k \in DOMAIN abilities :
                          abilities[k] = EntryOf(DataLinks[i])
               /\ \A k \in DOMAIN abilities :
                      \E i \in FirstUnder(DataLinks, h) :
                          abilities[k] = EntryOf(DataLinks[i])

\* an ability that is repeated under one hero, kept once there under its
\* first text, and also recorded under a second hero
C15_Witness ==
    /\ ParsedByHero
    /\ \E h \in DOMAIN heroes_out :
           /\ AnchorsUnder(DataLinks, h) # FirstUnder(DataLinks, h)
           /\ \E g \in DOMAIN heroes_out \ {h} :
                  AbilityIds(heroes_out[g].abilities)
                      \cap AbilityIds(heroes_out[h].abilities) # {}

(***************************************************************************)
(* Part 5: the HTTP request helpers                                        *)
(*                                                                         *)
(*   OpenDotaClient.get            (dota_league_bot/api_client.py)         *)
(*   player_stats.make_api_request (a loop bounded by MAX_RETRIES)         *)
(*   hero_stats.make_api_request   (a recursive call after each 429; the   *)
(*                                  one of team_analyzer is the same code) *)
(*                                                                         *)
(* The server answers every request with any of Responses.                 *)
(***************************************************************************)
MAX_RETRIES == 5

\* sys.getrecursionlimit() of CPython: the interpreter raises RecursionError
\* when the call stack would grow beyond it
RecursionLimit == 1000

Resp(status, json) == [status |-> status, json |-> json]

\* requests.get raised (connection error, timeout)
TransportFailure == Resp(0, FALSE)

\* json says whether the body parses as JSON
Responses ==
    { Resp(200, TRUE), Resp(200, FALSE), Resp(204, FALSE), Resp(304, FALSE),
      Resp(404, TRUE), Resp(429, TRUE), Resp(500, FALSE), TransportFailure }

HttpHelpers == {"OpenDotaClient.get", "player_stats", "hero_stats"}

Return(value, r) == [kind |-> "return", value |-> value, status |-> r.status]

Raise(exc, r) == [kind |-> "raise", value |-> exc, status |-> r.status]

\* a script calls one of the helpers
InitHttp ==
    /\ CanonIdle
    /\ PageBoot(ExampleCache, "static")
    /\ IdleBut("http")
    /\ http_fn \in HttpHelpers
    /\ http_pc = "calling"
    /\ attempts = 0
    /\ retries = 0
    /\ last_resp = Resp(0, FALSE)
    /\ earlier_other = FALSE
    /\ outcome = Return("", Resp(0, FALSE))

\* the call ends
Finish(o) ==
    /\ http_pc' = "done"
    /\ outcome' = o
    /\ UNCHANGED <<retries, earlier_other>>

\* the call goes on to another request after the answer r
Again(r) ==
    /\ retries' = retries + 1
    /\ earlier_other' = (earlier_other \/ r.status # 429)
    /\ UNCHANGED <<http_pc, outcome>>

\* OpenDotaClient.get with the status test "is not 2xx"
ClientGet_Not2xx(r) ==
    IF r = TransportFailure
    THEN Finish(Raise("OpenDotaError", r))
    ELSE IF r.status < 200 \/ r.status >= 300
    THEN Finish(Raise("OpenDotaError", r))
    ELSE IF r.json
    THEN Finish(Return("json", r))
    ELSE Finish(Raise("JSONDecodeError", r))

\* OpenDotaClient.get, after session.get answered r
ClientGet(r) ==
    IF r = TransportFailure
    THEN Finish(Raise("OpenDotaError", r))
    ELSE IF r.status >= 400
    THEN Finish(Raise("OpenDotaError", r))
    ELSE IF r.json
    THEN Finish(Return("json", r))
    ELSE Finish(Raise("JSONDecodeError", r))

\* the loop of player_stats with the retry counter left as it is after a 429
PlayerStatsRequest_NoCount(r) ==
    IF r = TransportFailure
    THEN Finish(Raise("ConnectionError", r))
    ELSE IF r.status = 200
    THEN Finish(Return("response", r))
    ELSE IF r.status = 429
    THEN /\ UNCHANGED <<http_pc, outcome, retries, earlier_other>>
    ELSE Finish(Return("None", r))

\* one pass of the while loop of player_stats.make_api_request; requests.get
\* is not guarded, so its exception leaves the function
PlayerStatsRequest(r) ==
    IF r = TransportFailure
    THEN Finish(Raise("ConnectionError", r))
    ELSE IF r.status = 200
    THEN Finish(Return("response", r))
    ELSE IF r.status = 429
    THEN IF retries + 1 < MAX_RETRIES
         THEN Again(r)
         ELSE /\ http_pc' = "done"
              /\ outcome' = Return("None", r)
              /\ retries' = retries + 1
              /\ UNCHANGED earlier_other
    ELSE Finish(Return("None", r))

\* one activation of hero_stats.make_api_request.  response.json() of a body
\* that is not JSON raises an exception that is a RequestException in newer
\* versions of requests (caught: None) and a plain ValueError in older ones.
HeroStatsRequest(r) ==
    IF r = TransportFailure
    THEN Finish(Return("None", r))
    ELSE IF r.status = 429
    THEN Again(r)
    ELSE IF r.status = 200
    THEN IF r.json
         THEN Finish(Return("json", r))
         ELSE \/ Finish(Return("None", r))
              \/ Finish(Raise("ValueError", r))
    ELSE Finish(Return("None", r))

\* the helper sends a GET and handles the answer
SendRequest ==
    /\ http_pc = "calling"
    /\ http_fn = "hero_stats" => retries + 1 < RecursionLimit
    /\ \E r \in Responses :
           /\ attempts' = attempts + 1
           /\ last_resp' = r
           /\ CASE http_fn = "OpenDotaClient.get" -> ClientGet(r)
                [] http_fn = "player_stats" -> PlayerStatsRequest(r)
                [] http_fn = "hero_stats" -> HeroStatsRequest(r)
    /\ UNCHANGED <<http_fn, offHttp>>

\* the recursive call of hero_stats.make_api_request exceeds the recursion
\* limit of the interpreter
StackExhausted ==
    /\ http_pc = "calling"
    /\ http_fn = "hero_stats"
    /\ retries + 1 >= RecursionLimit
    /\ http_pc' = "done"
    /\ outcome' = Raise("RecursionError", last_resp)
    /\ UNCHANGED <<http_fn, attempts, retries, last_resp, earlier_other,
                   offHttp>>

NextHttp ==
    \/ SendRequest
    \/ StackExhausted

\* a helper that is called goes on running
SpecHttp == InitHttp /\ [][NextHttp]_vars /\ WF_vars(NextHttp)

HttpDone(fn) == http_fn = fn /\ http_pc = "done"

Is2xx(r) == r.status >= 200 /\ r.status < 300

\* C16: OpenDotaClient.get sends one GET; a transport failure and every
\* status that is not 2xx raise OpenDotaError carrying the status, a 2xx
\* answer returns the parsed JSON.
C16_ClientTranslatesStatus ==
    HttpDone("OpenDotaClient.get") =>
        /\ attempts = 1
        /\ ~Is2xx(last_resp) =>
               outcome = Raise("OpenDotaError", last_resp)
        /\ Is2xx(last_resp) /\ last_resp.json =>
               outcome = Return("json", last_resp)

\* C17: player_stats.make_api_request sends at most MAX_RETRIES requests and
\* ends: with the response at the first 200, with None at the first status
\* other than 200 and 429, with None after MAX_RETRIES answers 429.
C17_BoundedRetries ==
    /\ [](http_fn = "player_stats" =>
              /\ attempts <= MAX_RETRIES
              /\ ~earlier_other
              /\ http_pc = "done" /\ last_resp.status = 200 =>
                     outcome = Return("response", last_resp)
              /\ http_pc = "done" /\ last_resp.status \notin {0, 200, 429} =>
                     outcome = Return("None", last_resp)
              /\ http_pc = "done" /\ last_resp.status = 429 =>
                     attempts = MAX_RETRIES /\ outcome = Return("None", last_resp)
              /\ http_pc = "done" /\ outcome.kind = "return"
                     /\ outcome.value = "None" /\ attempts < MAX_RETRIES =>
                     last_resp.status \notin {200, 429})
    /\ (http_fn = "player_stats" ~> http_pc = "done")

\* the call gave up after MAX_RETRIES answers 429
C17_Witness ==
    /\ HttpDone("player_stats")
    /\ attempts = MAX_RETRIES
    /\ last_resp.status = 429
    /\ outcome = Return("None", last_resp)

\* C18: make_api_request of hero_stats and team_analyzer repeats the request
\* after every 429 without limit and ends at the first attempt that is not
\* answered 429, with the parsed JSON on 200 and None otherwise.
C18_RetriesUntilNot429 ==
    HttpDone("hero_stats") =>
        /\ ~earlier_other
        /\ last_resp.status # 429
        /\ last_resp = Resp(200, TRUE) => outcome = Return("json", last_resp)
        /\ last_resp.status # 200 => outcome = Return("None", last_resp)

(***************************************************************************)
(* Part 6: the stat reports over the players CSV                           *)
(*                                                                         *)
(*   player_stats.process_players: one row per player and time frame       *)
(*   hero_stats.main: the per-player hero statistics of each time frame    *)
(*                                                                         *)
(* The statistics the API holds for an account and a time frame are        *)
(* abstract: the row computed from them is Metrics(account, tf).           *)
(***************************************************************************)
\* most rows drawn for the players CSV
MaxPlayers == 2

\* TIME_FRAMES.keys(), in order
TIME_FRAMES == <<"all_time", "last_2_years", "last_9_months">>

\* the rows drawn: two players, a second player named like the first, and a
\* player whose dotabuff URL holds no /players/<digits> (account 0)
CsvRowPool ==
    { [name |-> "Ann", account |-> 11],
      [name |-> "Bob", account |-> 22],
      [name |-> "Ann", account |-> 33],
      [name |-> "Cy", account |-> 0] }

\* extract_player_id: None (0) when the URL does not match
extract_player_id(row) == row.account

\* the suggested bid computed from the statistics of an account
BidOf(account, tf) ==
    (account * (CHOOSE k \in DOMAIN TIME_FRAMES : TIME_FRAMES[k] = tf)) % 7

\* the data_dict of a fetched time frame
Metrics(account, tf) ==
    [metrics |-> <<"of", account, tf>>, suggested_bid |-> BidOf(account, tf)]

\* the 'N/A' row; its bid sorts as 0
NARow == [metrics |-> <<"N/A", 0, "">>, suggested_bid |-> 0]

AllNA == [k \in DOMAIN TIME_FRAMES |-> NARow]

\* hero_stats: the stat list of a player, [] after a failed fetch
StatList(account, tf) == <<"stats", account, tf>>

EmptyStatList == <<"stats", 0, "">>

\* the outcomes of one API helper call: a 200 answer, None, an exception
CallOutcomes == {"ok", "none", "raise"}

\* the outcomes drawn for the four fetches of one call: all succeed, one of
\* them fails, or one gives None and a later one raises
CallTuples ==
    { c \in [1 .. 4 -> CallOutcomes] :
          \/ Cardinality({ k \in 1 .. 4 : c[k] # "ok" }) <= 1
          \/ c = <<"none", "ok", "raise", "ok">> }

\* the four fetches of fetch_player_data, and the keys of the dict it builds
FetchOrder == <<"wl", "heroes", "counts", "mmr">>

FourKeys == Range(FetchOrder)

\* a per-player cache file: the keys its JSON holds and the run that wrote
\* it ("old": an earlier run, "run": this one)
CacheFile(account, tf, keys, by) ==
    [account |-> account, tf |-> tf, keys |-> keys, by |-> by]

NoData == CacheFile(0, "", {}, "")

\* os.path.exists(cache_file)
Cached(cache, account, tf) ==
    { f \in cache : f.account = account /\ f.tf = tf }

\* open(cache_file, 'w') and json.dump
WriteCache(cache, file) ==
    (cache \ Cached(cache, file.account, file.tf)) \cup {file}

\* the fetches called before the function is left: an exception ends it
RequestsSent(calls) ==
    IF \E k \in 1 .. 4 : calls[k] = "raise"
    THEN CHOOSE k \in 1 .. 4 :
             /\ calls[k] = "raise"
             /\ \A j \in 1 .. k - 1 : calls[j] # "raise"
    ELSE 4

\* fetch_player_data of player_stats: the cache file is used unless
\* --refresh; otherwise the four fetches run (wl, heroes, counts, mmr), an
\* exception of any leaves the function, a None of any gives None, and the
\* result is cached only when all four succeeded.  calls is the tuple of the
\* four outcomes.
fetch_player_data(account, tf, calls) ==
    LET hit == Cached(player_cache, account, tf)
        player_data == CacheFile(account, tf, FourKeys, "run")
    IN  IF ~refresh /\ hit # {}
        THEN [result |-> "data", data |-> CHOOSE f \in hit : TRUE,
              cache |-> player_cache, requests |-> 0]
        ELSE IF \E k \in 1 .. 4 : calls[k] = "raise"
        THEN [result |-> "raise", data |-> NoData, cache |-> player_cache,
              requests |-> RequestsSent(calls)]
        ELSE IF \E k \in 1 .. 4 : calls[k] = "none"
        THEN [result |-> "None", data |-> NoData, cache |-> player_cache,
              requests |-> 4]
        ELSE [result |-> "data", data |-> player_data,
              cache |-> WriteCache(player_cache, player_data), requests |-> 4]

\* the per-player part of hero_stats.main: load_cached_data unless
\* --refresh, else make_api_request, which returns None on every failure
fetch_hero_stats(account, tf, call) ==
    IF ~refresh /\ Cached(player_cache, account, tf) # {}
    THEN [result |-> "data", cache |-> player_cache]
    ELSE IF call = "ok"
    THEN [result |-> "data",
          cache |-> WriteCache(player_cache,
                               CacheFile(account, tf, {"heroes"}, "run"))]
    ELSE [result |-> "None", cache |-> player_cache]

\* players_data[name] = player_info: a dict keeps the position of a key it
\* already holds
DictSet(d, name, v) ==
    IF \E k \in DOMAIN d : d[k].name = name
    THEN [k \in DOMAIN d |->
             IF d[k].name = name THEN [name |-> name, data |-> v] ELSE d[k]]
    ELSE Append(d, [name |-> name, data |-> v])

\* sorted(..., key=bid, reverse=True): stable, larger bids first
RECURSIVE InsertByBid(_, _, _)
InsertByBid(sorted, x, k) ==
    IF k > Len(sorted)
    THEN Append(sorted, x)
    ELSE IF sorted[k].row.suggested_bid < x.row.suggested_bid
         THEN SubSeq(sorted, 1, k - 1) \o <<x>> \o SubSeq(sorted, k, Len(sorted))
         ELSE InsertByBid(sorted, x, k + 1)

RECURSIVE SortByBid(_, _, _)
SortByBid(rows, i, sorted) ==
    IF i > Len(rows)
    THEN sorted
    ELSE SortByBid(rows, i + 1, InsertByBid(sorted, rows[i], 1))

\* generate_html_report: one table per time frame, a row per entry of
\* players_data, sorted by suggested bid
generate_html_report(pd) ==
    [t \in DOMAIN TIME_FRAMES |->
        SortByBid([k \in DOMAIN pd |-> [name |-> pd[k].name,
                                       row |-> pd[k].data[t]]],
                  1, <<>>)]

\* the report of hero_stats: per time frame the stat list of every player of
\* the CSV, looked up by account id
hero_report(rows, stats) ==
    [t \in DOMAIN TIME_FRAMES |->
        [k \in DOMAIN rows |->
            [name |-> rows[k].name,
             row |-> [metrics |-> stats[<<rows[k].account, t>>],
                      suggested_bid |-> 0]]]]

CsvFiles == SeqsUpTo(CsvRowPool, MaxPlayers) \ {<<>>}

\* the files the other scripts keep in cache/
OtherFiles ==
    {"ability_high_skill.json", "ability_roles.json",
     "backups/ability_roles_20250101-120000.json", "heroStats.json",
     "team_1234.json"}

\* the script starts over the cache/ of earlier runs
InitReport ==
    /\ CanonIdle
    /\ PageBoot(ExampleCache, "static")
    /\ IdleBut("report")
    /\ report_script \in {"player_stats", "hero_stats"}
    /\ csv_rows \in CsvFiles
    /\ refresh \in BOOLEAN
    /\ player_cache \in
           {{}, {CacheFile(11, "all_time",
                           IF report_script = "hero_stats"
                           THEN {"heroes"} ELSE FourKeys, "old")}}
    /\ other_cache \in {{}, OtherFiles}
    /\ cache0 = [player |-> player_cache, other |-> other_cache]
    /\ last_fetch = <<>>
    /\ rp_pc = IF report_script = "hero_stats" THEN "hero_list" ELSE "main"
    /\ row_i = 1
    /\ tf_i = 1
    /\ player_info = AllNA
    /\ players_data = IF report_script = "hero_stats" THEN EmptyMap ELSE <<>>
    /\ report = <<>>
    /\ failed = {}
    /\ crash = ""

Crash(why) ==
    /\ rp_pc' = "crashed"
    /\ crash' = why
    /\ UNCHANGED <<row_i, tf_i, player_info, players_data, report, failed,
                   player_cache, other_cache, cache0>>

\* the next time frame of the row, or the next row
Advance ==
    IF tf_i < Len(TIME_FRAMES)
    THEN tf_i' = tf_i + 1 /\ row_i' = row_i
    ELSE tf_i' = 1 /\ row_i' = row_i + 1

\* main of player_stats with the cache files of the players removed one by
\* one in place of the directory
ClearCache_PlayerFilesOnly ==
    /\ rp_pc = "main"
    /\ rp_pc' = "players"
    /\ player_cache' = IF refresh THEN {} ELSE player_cache
    /\ UNCHANGED <<other_cache, row_i, tf_i, player_info, players_data, report,
                   failed, cache0, last_fetch, crash>>
    /\ UNCHANGED <<report_script, csv_rows, refresh, offReport>>

\* main of player_stats before process_players: with --refresh
\* shutil.rmtree(CACHE_DIR) removes the directory and all it holds
ClearCache ==
    /\ rp_pc = "main"
    /\ rp_pc' = "players"
    /\ IF refresh
       THEN player_cache' = {} /\ other_cache' = {}
       ELSE UNCHANGED <<player_cache, other_cache>>
    /\ UNCHANGED <<row_i, tf_i, player_info, players_data, report, failed,
                   cache0, last_fetch, crash>>
    /\ UNCHANGED <<report_script, csv_rows, refresh, offReport>>

\* hero_stats: the hero list is fetched before the players are processed;
\* without it the dict comprehensions over None raise TypeError
FetchHeroList ==
    /\ rp_pc = "hero_list"
    /\ \/ /\ rp_pc' = "players"
          /\ UNCHANGED <<row_i, tf_i, player_info, players_data, report,
                         failed, player_cache, other_cache, cache0, crash>>
       \/ Crash("hero list")
    /\ UNCHANGED last_fetch
    /\ UNCHANGED <<report_script, csv_rows, refresh, offReport>>

\* player_stats: a row whose player id cannot be extracted
SkipPlayerWithoutId ==
    /\ rp_pc = "players"
    /\ report_script = "player_stats"
    /\ row_i <= Len(csv_rows)
    /\ extract_player_id(csv_rows[row_i]) = 0
    /\ players_data' = DictSet(players_data, csv_rows[row_i].name, AllNA)
    /\ row_i' = row_i + 1
    /\ UNCHANGED <<tf_i, player_info, report, failed, player_cache,
                   other_cache, cache0, last_fetch, rp_pc, crash>>
    /\ UNCHANGED <<report_script, csv_rows, refresh, offReport>>

\* player_info['data'][time_frame_name] = data_dict, or the 'N/A' row
StoreFrame(info, tf, r, account) ==
    IF r.result = "data"
    THEN [info EXCEPT ![tf_i] = Metrics(account, tf)]
    ELSE [info EXCEPT ![tf_i] = NARow]

\* player_stats: one time frame of one player
FetchPlayerFrame ==
    /\ rp_pc = "players"
    /\ report_script = "player_stats"
    /\ row_i <= Len(csv_rows)
    /\ extract_player_id(csv_rows[row_i]) # 0
    /\ \E calls \in CallTuples :
           LET account == csv_rows[row_i].account
               tf == TIME_FRAMES[tf_i]
               r == fetch_player_data(account, tf, calls)
               info == StoreFrame(IF tf_i = 1 THEN AllNA ELSE player_info,
                                  tf, r, account)
           IN /\ last_fetch' = <<[account |-> account, tf |-> tf,
                                  calls |-> calls, requests |-> r.requests,
                                  result |-> r.result, data |-> r.data]>>
              /\ IF r.result = "raise"
                 THEN Crash("player fetch")
                 ELSE
                   /\ player_cache' = r.cache
                   /\ UNCHANGED <<other_cache, cache0>>
                   /\ failed' = IF r.result = "None"
                                THEN failed \cup {<<row_i, tf_i>>}
                                ELSE failed
                   /\ player_info' = info
                   /\ players_data' =
                          IF tf_i = Len(TIME_FRAMES)
                          THEN DictSet(players_data, csv_rows[row_i].name, info)
                          ELSE players_data
                   /\ Advance
                   /\ UNCHANGED <<rp_pc, report, crash>>
    /\ UNCHANGED <<report_script, csv_rows, refresh, offReport>>

\* hero_stats: one time frame of one player;
\* player_hero_stats[time_frame][account_id] = data or []
FetchHeroFrame ==
    /\ rp_pc = "players"
    /\ report_script = "hero_stats"
    /\ row_i <= Len(csv_rows)
    /\ \E call \in {"ok", "none"} :
           LET account == csv_rows[row_i].account
               tf == TIME_FRAMES[tf_i]
               r == fetch_hero_stats(account, tf, call)
           IN /\ player_cache' = r.cache
              /\ UNCHANGED <<other_cache, cache0, last_fetch>>
              /\ failed' = IF r.result = "None"
                           THEN failed \cup {<<row_i, tf_i>>}
                           ELSE failed
              /\ players_data' =
                     MapSet(players_data, <<account, tf_i>>,
                            IF r.result = "data"
                            THEN StatList(account, tf)
                            ELSE EmptyStatList)
              /\ Advance
              /\ UNCHANGED <<rp_pc, player_info, report, crash>>
    /\ UNCHANGED <<report_script, csv_rows, refresh, offReport>>

\* every row is processed: the report is written
WriteReport ==
    /\ rp_pc = "players"
    /\ row_i > Len(csv_rows)
    /\ report' = IF report_script = "player_stats"
                 THEN generate_html_report(players_data)
                 ELSE hero_report(csv_rows, players_data)
    /\ rp_pc' = "done"
    /\ UNCHANGED <<row_i, tf_i, player_info, players_data, failed,
                   player_cache, other_cache, cache0, last_fetch, crash>>
    /\ UNCHANGED <<report_script, csv_rows, refresh, offReport>>

NextReport ==
    \/ ClearCache
    \/ FetchHeroList
    \/ SkipPlayerWithoutId
    \/ FetchPlayerFrame
    \/ FetchHeroFrame
    \/ WriteReport

SpecReport == InitReport /\ [][NextReport]_vars

\* the rows of the report for CSV row i in time frame t
ReportRowsOf(i, t) ==
    { k \in DOMAIN report[t] : report[t][k].name = csv_rows[i].name }

\* the row the report must hold for CSV row i in time frame t
ExpectedRow(i, t) ==
    IF report_script = "player_stats"
    THEN IF csv_rows[i].account = 0 \/ <<i, t>> \in failed
         THEN NARow
         ELSE Metrics(csv_rows[i].account, TIME_FRAMES[t])
    ELSE [metrics |-> IF <<i, t>> \in failed
                      THEN EmptyStatList
                      ELSE StatList(csv_rows[i].account, TIME_FRAMES[t]),
          suggested_bid |-> 0]

\* C19: a per-player fetch failure never ends the run without a report; in
\* the written report every time frame has one row per player of the CSV,
\* the row of a failed fetch (or of a player without id) is 'N/A' (the empty
\* stat list in hero_stats) and every other row is the row of the fetched
\* statistics.
C19_FailedFetchOnlyBlanksItsRow ==
    /\ crash # "player fetch"
    /\ rp_pc = "done" =>
           \A t \in DOMAIN TIME_FRAMES :
               /\ Len(report[t]) = Len(csv_rows)
               /\ \A i \in DOMAIN csv_rows :
                      \E k \in DOMAIN report[t] :
                          /\ report[t][k].name = csv_rows[i].name
                          /\ report[t][k].row = ExpectedRow(i, t)

(***************************************************************************)
(* Part 7: the tools over the cache files                                  *)
(*                                                                         *)
(*   build_ad_helper_page.main, build_ability_draft_game.main              *)
(*       read the HS cache, the role labels and the pairs, write the page  *)
(*   label_ability_roles.main                                              *)
(*       reads the HS cache, asks a label per ability, writes the labels   *)
(*                                                                         *)
(* A file is [kind, content]: kind is absent, ok, "not json" (json.load    *)
(* raises), "not object" (JSON that is no object: a list, a number, null), *)
(* "no key" (an object without labels / pairs) or "wrong shape" (an object *)
(* whose labels / pairs has the wrong type; content is what that value     *)
(* holds).                                                                 *)
(***************************************************************************)
\* most abilities held by the HS cache
MaxAbilities == 3

AUTOSAVE_EVERY == 10

INFILE_HS == "cache/ability_high_skill.json"

Builders == {"build_ad_helper_page", "build_ability_draft_game"}

Tools == Builders \cup {"label_ability_roles"}

AbilityNames ==
    <<"Fury Swipes", "Hex", "Shukuchi", "Bash", "Blink", "Burrow", "Chain Frost",
      "Dismember", "Enrage", "Fissure", "Geminate Attack", "Hook">>

RoleNames == {"carry", "support", "both"}

HsFile(kind, abilities) == [kind |-> kind, abilities |-> abilities]

RolesFile(kind, l) == [kind |-> kind, labels |-> l]

PairsFile(kind, p) == [kind |-> kind, pairs |-> p]

\* a HS cache that holds the first n abilities
CacheOf(n) == HsFile("ok", { AbilityNames[k] : k \in 1 .. n })

\* a HS cache with more abilities than a save interval
LongCache == CacheOf(AUTOSAVE_EVERY + 1)

\* the HS caches drawn: absent, unreadable, without and with abilities
HsFiles ==
    { HsFile("absent", {}), HsFile("not json", {}), HsFile("ok", {}) }
        \cup { CacheOf(n) : n \in 1 .. MaxAbilities }

RolesFiles ==
    { RolesFile("absent", EmptyMap), RolesFile("not json", EmptyMap),
      RolesFile("not object", EmptyMap), RolesFile("no key", EmptyMap),
      RolesFile("wrong shape", MapSet(EmptyMap, "Hex", "carry")),
      RolesFile("ok", EmptyMap),
      RolesFile("ok", MapSet(EmptyMap, "Hex", "carry")),
      RolesFile("ok", MapSet(MapSet(EmptyMap, "Hex", "carry"),
                             "Fury Swipes", "support")) }

PairsFiles ==
    { PairsFile("absent", <<>>), PairsFile("not json", <<>>),
      PairsFile("not object", <<>>), PairsFile("no key", <<>>),
      PairsFile("wrong shape", <<"Hex+Bash">>),
      PairsFile("ok", <<"Hex+Bash">>) }

\* the SystemExit of a missing HS cache
MissingHs(hint) == <<"Missing ", INFILE_HS, hint>>

\* the load with the existence test left out: opening the
\* missing file raises FileNotFoundError
load_hs_NoCheck(t, f) ==
    IF f.kind \in {"absent", "not json"}
    THEN [kind |-> "error", msg |-> <<>>, abilities |-> {}]
    ELSE [kind |-> "ok", msg |-> <<>>, abilities |-> f.abilities]

\* load_hs of the labeler and the first lines of load_high_skill of the
\* builders: SystemExit when the file does not exist, the exception of
\* json.load when it is no JSON
load_hs(t, f) ==
    IF f.kind = "absent"
    THEN [kind |-> "SystemExit",
          msg |-> MissingHs(IF t \in Builders
                            THEN ". Run the HS scraper first."
                            ELSE ". Run the scraper first."),
          abilities |-> {}]
    ELSE IF f.kind = "not json"
    THEN [kind |-> "error", msg |-> <<>>, abilities |-> {}]
    ELSE [kind |-> "ok", msg |-> <<>>, abilities |-> f.abilities]

\* how a call ends
Returns(v) == [raised |-> FALSE, value |-> v]

Raises(exc) == [raised |-> TRUE, value |-> exc]

\* the try block of load_roles / load_pairs on the content of a file:
\* json.load raises on what is no JSON, doc.get raises on what is no object,
\* the default is taken when the key is missing and when the value has not
\* the type wanted
TryLoad(kind, content, default) ==
    IF kind = "not json" THEN Raises("JSONDecodeError")
    ELSE IF kind = "not object" THEN Raises("AttributeError")
    ELSE IF kind = "no key" THEN Returns(default)
    ELSE IF kind = "wrong shape" THEN Returns(default)
    ELSE Returns(content)

\* except Exception: return the default
Swallow(r, default) == IF r.raised THEN Returns(default) ELSE r

\* load_roles without its try / except
load_roles_NoTry(f) ==
    IF f.kind = "absent"
    THEN Returns(EmptyMap)
    ELSE TryLoad(f.kind, f.labels, EmptyMap)

\* load_roles of the builders
load_roles(f) ==
    IF f.kind = "absent"
    THEN Returns(EmptyMap)
    ELSE Swallow(TryLoad(f.kind, f.labels, EmptyMap), EmptyMap)

\* load_pairs of the builders
load_pairs(f) ==
    IF f.kind = "absent"
    THEN Returns(<<>>)
    ELSE Swallow(TryLoad(f.kind, f.pairs, <<>>), <<>>)

\* load_labels of the labeler: the document when it is an object with a
\* labels key, whatever the type of labels; else empty labels
load_labels(f) ==
    IF f.kind \in {"ok", "wrong shape"} THEN f ELSE RolesFile("ok", EmptyMap)

\* the page written: mk_html of what was loaded
mk_html(t, abilities, roles, pairs) ==
    <<[build |-> t, abilities |-> abilities, roles |-> roles, pairs |-> pairs]>>

OldPage ==
    <<[build |-> "old", abilities |-> {}, roles |-> EmptyMap, pairs |-> <<>>]>>

\* labels.pop(name, None)
MapPop(m, k) == [x \in DOMAIN m \ {k} |-> m[x]]

\* labels.get(name): None as the empty tuple
MapGet(m, k) == IF k \in DOMAIN m THEN <<m[k]>> ELSE <<>>

\* the orders of a set of names
Orders(S) ==
    { q \in [1 .. Cardinality(S) -> S] :
          \A i, j \in 1 .. Cardinality(S) : q[i] = q[j] => i = j }

\* build_queue: the unlabeled abilities, shuffled, then the labeled ones in
\* the order of the HS cache (the order of the names in AbilityNames)
RECURSIVE InCacheOrder(_, _)
InCacheOrder(S, k) ==
    IF k > Len(AbilityNames)
    THEN <<>>
    ELSE (IF AbilityNames[k] \in S THEN <<AbilityNames[k]>> ELSE <<>>)
             \o InCacheOrder(S, k + 1)

\* random.shuffle under the fixed seed: some order of the list; every order
\* of a short list is drawn, the cache order of a long one
Shuffles(S) ==
    IF Cardinality(S) <= MaxAbilities + 1
    THEN Orders(S)
    ELSE {InCacheOrder(S, 1)}

build_queue(abilities, l) ==
    { shuffled \o InCacheOrder(abilities \cap DOMAIN l, 1) :
          shuffled \in Shuffles(abilities \ DOMAIN l) }

\* the payload as json.dump writes it: complete, or cut short
Payload(l) == [complete |-> TRUE, labels |-> l]

Partial == [complete |-> FALSE, labels |-> EmptyMap]

\* the roles file that holds a payload
Stored(p) ==
    IF p.complete THEN RolesFile("ok", p.labels) ELSE RolesFile("not json", EmptyMap)

\* a call of save_labels(payload) starts; main goes on at then
BeginSave(then) ==
    /\ tool_pc' = "saving"
    /\ save_pc' = "open"
    /\ save_then' = then

\* undo of one change: the label the ability had, or none
Undo_AlwaysPop(l, last) == MapPop(l, last[1])

Undo(l, last) ==
    IF last[2] = <<>> THEN MapPop(l, last[1]) ELSE MapSet(l, last[1], last[2][1])

\* the roles typed in a session: every role over a short queue, carry
\* alone over a long one
RolesTyped ==
    IF Len(queue) > MaxAbilities + 1 THEN {"carry"} ELSE RoleNames

\* a tool starts over the files it finds; the labeler does not read the
\* pairs file and runs without one
FilesStart(tools, hsFiles, rolesFiles) ==
    /\ CanonIdle
    /\ PageBoot(ExampleCache, "static")
    /\ IdleBut("files")
    /\ tool \in tools
    /\ hs_file \in hsFiles
    /\ roles_file \in rolesFiles
    /\ pairs_file \in IF tool \in Builders
                       THEN PairsFiles
                       ELSE {PairsFile("absent", <<>>)}
    /\ dist_html \in {<<>>, OldPage}
    /\ backups = <<>>
    /\ tool_pc = "start"
    /\ exit_msg = <<>>
    /\ labels = EmptyMap
    /\ history = <<>>
    /\ made = 0
    /\ idx = 1
    /\ queue = <<>>
    /\ files0 = [dist |-> dist_html, roles |-> roles_file]
    /\ last_key = ""
    /\ tmp_file = <<>>
    /\ save_pc = ""
    /\ save_then = ""

InitFiles == FilesStart(Tools, HsFiles, RolesFiles)

\* the labeler over a long HS cache
InitSession ==
    FilesStart({"label_ability_roles"}, {LongCache},
               { f \in RolesFiles : f.kind = "absent" \/ f.labels # EmptyMap })

inputFiles == <<tool, hs_file, pairs_file, files0>>

session == <<labels, history, made, idx, queue>>

saveVars == <<tmp_file, save_pc, save_then>>

\* the first statement of every main: the HS cache is loaded
LoadHighSkill ==
    /\ tool_pc = "start"
    /\ LET r == load_hs(tool, hs_file)
       IN /\ tool_pc' = IF r.kind = "SystemExit" THEN "exit"
                        ELSE IF r.kind = "error" THEN "error"
                        ELSE "loaded"
          /\ exit_msg' = r.msg
    /\ UNCHANGED <<inputFiles, roles_file, dist_html, backups, session,
                   last_key, saveVars>>
    /\ UNCHANGED offFiles

\* the rest of main of a builder
BuildPage ==
    /\ tool_pc = "loaded"
    /\ tool \in Builders
    /\ LET roles == load_roles(roles_file)
           pairs == load_pairs(pairs_file)
       IN IF roles.raised \/ pairs.raised
          THEN tool_pc' = "error" /\ UNCHANGED dist_html
          ELSE /\ dist_html' = mk_html(tool, hs_file.abilities, roles.value,
                                       pairs.value)
               /\ tool_pc' = "done"
    /\ UNCHANGED <<inputFiles, roles_file, backups, exit_msg, session,
                   last_key, saveVars>>
    /\ UNCHANGED offFiles

\* the labeler up to its first prompt: without abilities it returns; labels
\* of another type than dict end the run with the exception of labels.get
StartSession ==
    /\ tool_pc = "loaded"
    /\ tool = "label_ability_roles"
    /\ LET payload == load_labels(roles_file)
       IN IF hs_file.abilities = {}
          THEN tool_pc' = "done" /\ UNCHANGED session
          ELSE IF payload.kind = "wrong shape"
          THEN tool_pc' = "error" /\ UNCHANGED session
          ELSE /\ tool_pc' = "prompt"
               /\ labels' = payload.labels
               /\ queue' \in build_queue(hs_file.abilities, payload.labels)
               /\ UNCHANGED <<history, made, idx>>
    /\ UNCHANGED <<inputFiles, roles_file, dist_html, backups, exit_msg,
                   last_key, saveVars>>
    /\ UNCHANGED offFiles

\* the loop condition holds and input() is called
AtPrompt ==
    /\ tool_pc = "prompt"
    /\ idx <= Len(queue)

\* c, s, b: the ability asked gets the label; a change is recorded for undo
\* and every AUTOSAVE_EVERY changes the file is saved; then the next
\* ability is asked
KeyLabel ==
    /\ AtPrompt
    /\ \E new_label \in RolesTyped :
           LET name == queue[idx]
               prev == MapGet(labels, name)
           IN /\ last_key' = new_label
              /\ IF prev # <<new_label>>
                 THEN /\ history' = Append(history, <<name, prev>>)
                      /\ labels' = MapSet(labels, name, new_label)
                      /\ made' = made + 1
                      /\ IF (made + 1) % AUTOSAVE_EVERY = 0
                         THEN BeginSave("prompt")
                         ELSE UNCHANGED <<tool_pc, save_pc, save_then>>
                 ELSE UNCHANGED <<history, labels, made, tool_pc, save_pc,
                                  save_then>>
    /\ idx' = idx + 1
    /\ UNCHANGED <<inputFiles, roles_file, dist_html, backups, exit_msg,
                   queue, tmp_file>>
    /\ UNCHANGED offFiles

\* k or an empty line
KeySkip ==
    /\ AtPrompt
    /\ last_key' = "k"
    /\ idx' = idx + 1
    /\ UNCHANGED <<inputFiles, roles_file, dist_html, backups, tool_pc,
                   exit_msg, labels, history, made, queue, saveVars>>
    /\ UNCHANGED offFiles

\* u: the last change of the session is reverted, if there is one
KeyUndo ==
    /\ AtPrompt
    /\ last_key' = "u"
    /\ IF history # <<>>
       THEN /\ history' = SubSeq(history, 1, Len(history) - 1)
            /\ labels' = Undo(labels, history[Len(history)])
       ELSE UNCHANGED <<history, labels>>
    /\ UNCHANGED <<inputFiles, roles_file, dist_html, backups, tool_pc,
                   exit_msg, made, idx, queue, saveVars>>
    /\ UNCHANGED offFiles

\* ? or h (help) and every unrecognized key: the same ability is asked again
KeyOther ==
    /\ AtPrompt
    /\ last_key' \in {"?", "x"}
    /\ UNCHANGED <<inputFiles, roles_file, dist_html, backups, tool_pc,
                   exit_msg, session, saveVars>>
    /\ UNCHANGED offFiles

\* q that returns without the save
KeyQuit_NoSave ==
    /\ AtPrompt
    /\ last_key' \in {"q", "^C", "EOF"}
    /\ tool_pc' = "done"
    /\ UNCHANGED <<inputFiles, roles_file, dist_html, backups, exit_msg,
                   session, saveVars>>
    /\ UNCHANGED offFiles

\* q, Ctrl-C or end of input at the prompt: save and return
KeyQuit ==
    /\ AtPrompt
    /\ last_key' \in {"q", "^C", "EOF"}
    /\ BeginSave("done")
    /\ UNCHANGED <<inputFiles, roles_file, dist_html, backups, exit_msg,
                   session, tmp_file>>
    /\ UNCHANGED offFiles

\* the queue is finished: save and return
FinishQueue ==
    /\ tool_pc = "prompt"
    /\ idx > Len(queue)
    /\ BeginSave("done")
    /\ UNCHANGED <<inputFiles, roles_file, dist_html, backups, exit_msg,
                   session, tmp_file, last_key>>
    /\ UNCHANGED offFiles

saveFrame == <<inputFiles, dist_html, exit_msg, session, last_key>>

\* the target opened for writing in place of the temporary file
SaveOpenTmp_InPlace ==
    /\ tool_pc = "saving"
    /\ save_pc = "open"
    /\ roles_file' = Stored(Partial)
    /\ tmp_file' = <<Partial>>
    /\ save_pc' = "dump"
    /\ UNCHANGED <<backups, tool_pc, save_then, saveFrame>>
    /\ UNCHANGED offFiles

\* save_labels: tmp.open("w") creates or empties the temporary file
SaveOpenTmp ==
    /\ tool_pc = "saving"
    /\ save_pc = "open"
    /\ tmp_file' = <<Partial>>
    /\ save_pc' = "dump"
    /\ UNCHANGED <<roles_file, backups, tool_pc, save_then, saveFrame>>
    /\ UNCHANGED offFiles

\* save_labels: json.dump writes the payload and the file is closed
SaveDump ==
    /\ tool_pc = "saving"
    /\ save_pc = "dump"
    /\ tmp_file' = <<Payload(labels)>>
    /\ save_pc' = "replace"
    /\ UNCHANGED <<roles_file, backups, tool_pc, save_then, saveFrame>>
    /\ UNCHANGED offFiles

\* save_labels: tmp.replace(OUT_FILE) renames the temporary file
SaveReplace ==
    /\ tool_pc = "saving"
    /\ save_pc = "replace"
    /\ roles_file' = Stored(tmp_file[1])
    /\ tmp_file' = <<>>
    /\ save_pc' = "backup"
    /\ UNCHANGED <<backups, tool_pc, save_then, saveFrame>>
    /\ UNCHANGED offFiles

\* save_labels: shutil.copy2 copies the file to the backups; the call
\* returns
SaveBackup ==
    /\ tool_pc = "saving"
    /\ save_pc = "backup"
    /\ backups' = Append(backups, roles_file)
    /\ save_pc' = ""
    /\ tool_pc' = save_then
    /\ save_then' = ""
    /\ UNCHANGED <<roles_file, tmp_file, saveFrame>>
    /\ UNCHANGED offFiles

\* the process is killed during a save
SaveCrash ==
    /\ tool_pc = "saving"
    /\ tool_pc' = "crashed"
    /\ UNCHANGED <<roles_file, backups, saveVars, saveFrame>>
    /\ UNCHANGED offFiles

NextSession ==
    \/ LoadHighSkill
    \/ StartSession
    \/ KeyLabel
    \/ KeySkip
    \/ KeyUndo
    \/ KeyOther
    \/ KeyQuit
    \/ FinishQueue
    \/ SaveOpenTmp
    \/ SaveDump
    \/ SaveReplace
    \/ SaveBackup
    \/ SaveCrash

NextFiles ==
    \/ BuildPage
    \/ NextSession

SpecFiles == InitFiles /\ [][NextFiles]_vars

SpecSession == InitSession /\ [][NextSession]_vars

\* the outputs are as the run found them
OutputsUntouched ==
    /\ dist_html = files0.dist
    /\ roles_file = files0.roles
    /\ backups = <<>>

\* C20: without cache/ability_high_skill.json a builder or the labeler does
\* nothing but stop with a SystemExit whose message names that file:
\* dist/ad_helper.html and cache/ability_roles.json stay as they were.
C20_MissingHsStopsBeforeOutput ==
    hs_file.kind = "absent" =>
        /\ OutputsUntouched
        /\ tool_pc \in {"start", "exit"}
        /\ tool_pc = "exit" =>
               \E k \in DOMAIN exit_msg : exit_msg[k] = INFILE_HS

\* a run stopped by the missing HS cache, over an existing page and labels
C20_Witness ==
    /\ hs_file.kind = "absent"
    /\ tool_pc = "exit"
    /\ exit_msg # <<>>
    /\ dist_html = OldPage
    /\ roles_file.kind = "ok"

\* C21: whatever the roles and pairs files hold, a builder that found the HS
\* cache does not end with an exception, and the page it writes holds the
\* labels of the roles file when that is an object whose labels is an object
\* (else no labels) and the pairs of the pairs file when that is an object
\* whose pairs is a list (else no pairs).
C21_OptionalCachesSwallowed ==
    (tool \in Builders /\ hs_file.kind = "ok") =>
        /\ tool_pc # "error"
        /\ tool_pc = "done" =>
               dist_html =
                   mk_html(tool, hs_file.abilities,
                           IF roles_file.kind = "ok"
                           THEN roles_file.labels ELSE EmptyMap,
                           IF pairs_file.kind = "ok"
                           THEN pairs_file.pairs ELSE <<>>)

\* a page built over a roles file that is no JSON and a pairs file whose
\* pairs is no list
C21_Witness ==
    /\ tool \in Builders
    /\ tool_pc = "done"
    /\ roles_file.kind = "not json"
    /\ pairs_file.kind = "wrong shape"
    /\ dist_html # files0.dist

\* the labels the session started with
SessionStartLabels == load_labels(files0.roles).labels

\* C22: in the labeler, u with a change left gives the ability changed last
\* the label it had before that change (none if it had none) and leaves
\* every other label alone; when as many changes are undone as were made
\* the labels are those of the session start; u with nothing to undo, k, ?
\* and unrecognized keys leave the labels as they are.
C22_UndoRevertsLastChange ==
    /\ [](queue # <<>> /\ history = <<>> => labels = SessionStartLabels)
    /\ [][(AtPrompt /\ last_key' = "u" /\ history # <<>>) =>
              LET last == history[Len(history)]
              IN /\ MapGet(labels', last[1]) = last[2]
                 /\ \A a \in (DOMAIN labels \cup DOMAIN labels') \ {last[1]} :
                        MapGet(labels', a) = MapGet(labels, a)]_vars
    /\ [][(AtPrompt /\ \/ last_key' \in {"k", "?", "x"}
                       \/ last_key' = "u" /\ history = <<>>) =>
              labels' = labels]_vars

\* two changes, one of a label the file held, both undone
C22_Witness ==
    /\ last_key = "u"
    /\ made = 2
    /\ history = <<>>
    /\ "Fury Swipes" \in DOMAIN SessionStartLabels
    /\ "Shukuchi" \notin DOMAIN SessionStartLabels
    /\ queue = <<"Shukuchi", "Fury Swipes", "Hex">>
    /\ idx = 3

\* a labeler session that asked for labels has returned
SessionEnded ==
    /\ tool = "label_ability_roles"
    /\ tool_pc = "done"
    /\ queue # <<>>

\* C23: when a labeler session has ended through q, Ctrl-C, end of input or
\* the end of the queue, cache/ability_roles.json holds the labels in
\* memory and the newest backup is a copy of it; while the session runs the
\* file was saved, with a backup, once for every AUTOSAVE_EVERY label changes
\* made, each save storing the labels in memory at that time.
C23_SavedOnExitAndEveryTenth ==
    /\ [](SessionEnded =>
              /\ roles_file = RolesFile("ok", labels)
              /\ Len(backups) = made \div AUTOSAVE_EVERY + 1
              /\ backups[Len(backups)] = roles_file)
    /\ [](tool_pc = "prompt" => Len(backups) = made \div AUTOSAVE_EVERY)
    /\ [][(made' # made /\ made' % AUTOSAVE_EVERY = 0) => tool_pc' = "saving"]_vars
    /\ [][(tool_pc = "saving" /\ tool_pc' \in {"prompt", "done"}) =>
              /\ roles_file' = RolesFile("ok", labels')
              /\ Len(backups') = Len(backups) + 1
              /\ backups'[Len(backups')] = roles_file']_vars

\* a session that autosaved at the tenth change, undid that change and was
\* then interrupted
C23_Witness ==
    /\ SessionEnded
    /\ made = AUTOSAVE_EVERY
    /\ Len(history) < made
    /\ last_key = "^C"
    /\ Len(backups) = 2
    /\ backups[1] # backups[2]

\* the roles file holds what the run found or a payload written in full
Whole(f) == f = files0.roles \/ f.kind = "ok"

\* C29: save_labels never leaves a partial cache/ability_roles.json: through
\* every step of a save and after a crash at any of them the file is what it
\* was before the run or a payload written in full; it changes only by the
\* rename of the temporary file written in full with the labels in memory,
\* and a backup is taken only after that rename, as a copy of the new file.
C29_SaveReplacesAtomically ==
    /\ [](Whole(roles_file) /\ \A k \in DOMAIN backups : Whole(backups[k]))
    /\ [][roles_file' # roles_file =>
              /\ tmp_file = <<Payload(labels)>>
              /\ roles_file' = RolesFile("ok", labels)]_vars
    /\ [][backups' # backups =>
              /\ save_pc = "backup"
              /\ roles_file = RolesFile("ok", labels)
              /\ backups' = Append(backups, roles_file)]_vars

\* a crash while the payload is being written: the temporary file is
\* partial, the labels file is the complete one the run found
C29_Witness ==
    /\ tool_pc = "crashed"
    /\ save_pc = "dump"
    /\ tmp_file = <<Partial>>
    /\ roles_file = files0.roles
    /\ roles_file.kind = "ok"
    /\ labels # roles_file.labels

\* a call of fetch_player_data has just ended
FetchEnded == report_script = "player_stats" /\ last_fetch' # last_fetch

\* C28: in every call of fetch_player_data: the cache changes only by the
\* file of the account and date range fetched, written with the four keys
\* after four successful fetches, so every cache file holds the four keys;
\* when a fetch failed the call returns None and the cache is as before;
\* when refresh is false and the file exists no request is sent and the
\* content of the file is returned.
C28_CacheOnlyCompleteFetches ==
    /\ [](report_script = "player_stats" =>
              \A f \in player_cache : f.keys = FourKeys)
    /\ [][FetchEnded =>
              LET c == last_fetch'[1]
                  file == Cached(player_cache, c.account, c.tf)
                  hit == ~refresh /\ file # {}
                  failure == \E k \in 1 .. 4 : c.calls[k] # "ok"
              IN /\ hit =>
                        /\ c.requests = 0
                        /\ c.result = "data"
                        /\ c.data \in file
                        /\ player_cache' = player_cache
                 /\ (~hit /\ failure) =>
                        /\ c.result = "None"
                        /\ player_cache' = player_cache
                 /\ (~hit /\ ~failure) =>
                        /\ c.result = "data"
                        /\ c.data = CacheFile(c.account, c.tf, FourKeys, "run")
                        /\ player_cache' = WriteCache(player_cache, c.data)]_vars
    /\ [][(report_script = "player_stats" /\ rp_pc = "players"
              /\ player_cache' # player_cache) => FetchEnded]_vars

\* C30: player_stats with --refresh has emptied cache/ before the first
\* player is processed, so from then on cache/ holds nothing of the other
\* scripts and only player files written by this run; without --refresh
\* every file found in cache/ is still there, as it was.
C30_RefreshClearsWholeCache ==
    report_script = "player_stats" =>
        /\ (refresh /\ rp_pc # "main") =>
               /\ other_cache = {}
               /\ \A f \in player_cache : f.by = "run"
        /\ ~refresh =>
               /\ other_cache = cache0.other
               /\ cache0.player \subseteq player_cache

\* a run with --refresh over a cache/ that held files of the other scripts
\* and a player file, ended with a file of its own
C30_Witness ==
    /\ report_script = "player_stats"
    /\ refresh
    /\ rp_pc = "done"
    /\ cache0.other = OtherFiles
    /\ cache0.player # {}
    /\ player_cache # {}

(***************************************************************************)
(* Part 8: the tabs of one room of the realtime build                      *)
(*                                                                         *)
(*   render, broadcastDebounced, channel.on(request_state),                *)
(*   channel.on(state), channel.subscribe of build_ability_draft_game      *)
(*                                                                         *)
(* The selection and hidden set a tab shows are named by the local change  *)
(* that produced them: <<tab, localRev>>, and <<0, 0>> for the empty state *)
(* of a page just opened.  A broadcast is one message per subscribed tab,  *)
(* delivered in any order.  Whether the sender gets a copy of its own      *)
(* broadcast is the channel's broadcast.self option, which the page leaves *)
(* at its default; both handlers drop such a copy at their source test.    *)
(* The model delivers the copy of a state broadcast, so that the test of   *)
(* channel.on(state) is exercised, and leaves out the copy of a            *)
(* request_state.  Tabs are opened in the order of their numbers.          *)
(***************************************************************************)
\* most tabs in the room
MaxTabs == 2

\* most local changes made in the room
MaxChanges == 2

Tabs == 1 .. MaxTabs

EmptyState == <<0, 0>>

\* the tabs subscribed to the channel
Subscribed == { t \in Tabs : isReady[t] }

\* channel.send: a message for every tab subscribed
Broadcast(to, payload) ==
    { [to |-> u, event |-> payload.event, source |-> payload.source,
       rev |-> payload.rev, state |-> payload.state, seq |-> payload.seq] :
          u \in to }

RequestOf(t) ==
    [event |-> "request_state", source |-> t, rev |-> 0, state |-> EmptyState,
     seq |-> 0]

\* payload:{ source:CLIENT_ID, rev:localRev, state:currentState() }
StateOf(t) ==
    [event |-> "state", source |-> t, rev |-> localRevs[t],
     state |-> tabState[t], seq |-> sentSeq[t] + 1]

\* nothing is in flight and no timer runs
Quiet ==
    /\ net = {}
    /\ \A t \in Tabs : ~timer[t]
    /\ \A t \in Tabs : isReady[t] => ~isSyncing[t]

\* the state every subscribed tab shows, when they show the same
RoomState ==
    IF /\ Subscribed # {}
       /\ \A t, u \in Subscribed : tabState[t] = tabState[u]
    THEN <<tabState[CHOOSE t \in Subscribed : TRUE]>>
    ELSE <<>>

\* no page is open
InitRoom ==
    /\ CanonIdle
    /\ PageBoot(ExampleCache, "realtime")
    /\ IdleBut("room")
    /\ isReady = [t \in Tabs |-> FALSE]
    /\ isSyncing = [t \in Tabs |-> TRUE]
    /\ gotRemoteState = [t \in Tabs |-> FALSE]
    /\ localRevs = [t \in Tabs |-> 0]
    /\ lastAppliedRevs = [t \in Tabs |-> 0]
    /\ tabState = [t \in Tabs |-> EmptyState]
    /\ timer = [t \in Tabs |-> FALSE]
    /\ net = {}
    /\ changes = 0
    /\ sentSeq = [t \in Tabs |-> 0]
    /\ appliedSeq = [t \in Tabs |-> [s \in Tabs |-> 0]]
    /\ last_change = <<>>
    /\ join_expect = <<>>

\* a page is opened on the room link: the first render, then the channel is
\* subscribed and request_state is sent
OpenTab(t) ==
    /\ ~isReady[t]
    /\ \A u \in 1 .. t - 1 : isReady[u]
    /\ isReady' = [isReady EXCEPT ![t] = TRUE]
    /\ localRevs' = [localRevs EXCEPT ![t] = 1]
    /\ net' = net \cup Broadcast(Subscribed, RequestOf(t))
    /\ last_change' = <<>>
    /\ join_expect' = IF Quiet /\ RoomState # <<>>
                      THEN <<[state |-> RoomState[1], old |-> Subscribed]>>
                      ELSE <<>>
    /\ UNCHANGED <<isSyncing, gotRemoteState, lastAppliedRevs, tabState, timer,
                   changes, sentSeq, appliedSeq>>
    /\ UNCHANGED offRoom

\* render after applying a remote state: localRev grows and the state is
\* broadcast again
RenderRemote_Echo(t) ==
    /\ localRevs' = [localRevs EXCEPT ![t] = localRevs[t] + 1]
    /\ timer' = [timer EXCEPT ![t] = TRUE]

\* render with isApplyingRemote set: no bump, no broadcast
RenderRemote(t) ==
    UNCHANGED <<localRevs, timer>>

\* a click that changes the selection or the hidden set, then render: bump,
\* and broadcastDebounced unless the join window is open
LocalChange(t) ==
    /\ isReady[t]
    /\ changes < MaxChanges
    /\ changes' = changes + 1
    /\ localRevs' = [localRevs EXCEPT ![t] = localRevs[t] + 1]
    /\ tabState' = [tabState EXCEPT ![t] = <<t, localRevs[t] + 1>>]
    /\ timer' = [timer EXCEPT ![t] = timer[t] \/ ~isSyncing[t]]
    /\ last_change' = IF \A u \in Subscribed : ~isSyncing[u]
                      THEN <<t>>
                      ELSE <<>>
    /\ join_expect' = <<>>
    /\ UNCHANGED <<isReady, isSyncing, gotRemoteState, lastAppliedRevs, net,
                   sentSeq, appliedSeq>>
    /\ UNCHANGED offRoom

\* the debounce timer ends: broadcastDebounced sends the current state
FireBroadcast(t) ==
    /\ timer[t]
    /\ timer' = [timer EXCEPT ![t] = FALSE]
    /\ IF isReady[t] /\ ~isSyncing[t]
       THEN /\ net' = net \cup Broadcast(Subscribed, StateOf(t))
            /\ sentSeq' = [sentSeq EXCEPT ![t] = sentSeq[t] + 1]
       ELSE UNCHANGED <<net, sentSeq>>
    /\ UNCHANGED <<isReady, isSyncing, gotRemoteState, localRevs,
                   lastAppliedRevs, tabState, changes, appliedSeq, last_change,
                   join_expect>>
    /\ UNCHANGED offRoom

\* JOIN_TIMEOUT_MS after the subscription: the window closes, and the tab
\* seeds the room with its state if it applied none
JoinTimeout(t) ==
    /\ isReady[t]
    /\ isSyncing[t]
    /\ isSyncing' = [isSyncing EXCEPT ![t] = FALSE]
    /\ timer' = [timer EXCEPT ![t] = timer[t] \/ ~gotRemoteState[t]]
    /\ UNCHANGED <<isReady, gotRemoteState, localRevs, lastAppliedRevs,
                   tabState, net, changes, sentSeq, appliedSeq, last_change,
                   join_expect>>
    /\ UNCHANGED offRoom

\* channel.on(request_state): every tab but the sender answers with its
\* state
OnRequestState(m) ==
    /\ m \in net
    /\ m.event = "request_state"
    /\ IF m.source = m.to
       THEN /\ net' = net \ {m}
            /\ UNCHANGED sentSeq
       ELSE /\ net' = (net \ {m}) \cup Broadcast(Subscribed, StateOf(m.to))
            /\ sentSeq' = [sentSeq EXCEPT ![m.to] = sentSeq[m.to] + 1]
    /\ UNCHANGED <<isReady, isSyncing, gotRemoteState, localRevs,
                   lastAppliedRevs, tabState, timer, changes, appliedSeq,
                   last_change, join_expect>>
    /\ UNCHANGED offRoom

\* every state passes for new
Stale_Never(m) ==
    FALSE

\* if(typeof rev==="number" && rev<=lastAppliedRev) return;
Stale(m) ==
    m.rev <= lastAppliedRevs[m.to]

\* channel.on(state): a state of another tab with a rev above lastAppliedRev
\* is applied and rendered
OnRoomState(m) ==
    /\ m \in net
    /\ m.event = "state"
    /\ net' = net \ {m}
    /\ IF m.source = m.to \/ Stale(m)
       THEN UNCHANGED <<lastAppliedRevs, gotRemoteState, tabState, appliedSeq,
                        localRevs, timer>>
       ELSE /\ lastAppliedRevs' = [lastAppliedRevs EXCEPT ![m.to] = m.rev]
            /\ gotRemoteState' = [gotRemoteState EXCEPT ![m.to] = TRUE]
            /\ tabState' = [tabState EXCEPT ![m.to] = m.state]
            /\ appliedSeq' = [appliedSeq EXCEPT ![m.to][m.source] = m.seq]
            /\ RenderRemote(m.to)
    /\ UNCHANGED <<isReady, isSyncing, changes, sentSeq, last_change,
                   join_expect>>
    /\ UNCHANGED offRoom

\* what the browser and the channel do by themselves
RoomRuns ==
    \/ \E t \in Tabs : FireBroadcast(t)
    \/ \E t \in Tabs : JoinTimeout(t)
    \/ \E m \in net : OnRequestState(m)
    \/ \E m \in net : OnRoomState(m)

NextRoom ==
    \/ \E t \in Tabs : OpenTab(t)
    \/ \E t \in Tabs : LocalChange(t)
    \/ RoomRuns

SpecRoom == InitRoom /\ [][NextRoom]_vars /\ WF_vars(RoomRuns)

(***************************************************************************)
(* Claims about the room                                                   *)
(***************************************************************************)
\* the tab that made the last local change, every tab being past its join
\* window then and no tab opened since
LastChanger == last_change[1]

\* C24: when every subscribed tab is past its join window, one of them makes
\* a local change, no local change follows and every message has been
\* delivered, every subscribed tab shows the selection and hidden set of the
\* tab that made the change.
C24_LastChangeReachesEveryTab ==
    (Quiet /\ last_change # <<>>) =>
        \A t \in Subscribed : tabState[t] = tabState[LastChanger]

\* the states a join is expected to keep: the one every tab of the room
\* showed when the room was quiet and the page was opened
JoinState == join_expect[1].state

Existing == join_expect[1].old

\* C25: a tab that joins a quiet room whose tabs show one state never makes
\* one of them show another state, and shows that state itself once the join
\* window is closed and every message has been delivered.
C25_JoinKeepsRoomState ==
    join_expect # <<>> =>
        /\ \A u \in Existing : tabState[u] = JoinState
        /\ Quiet => \A t \in Subscribed : tabState[t] = JoinState

\* a state message is applied in this step by tab t
Applies(t) == appliedSeq'[t] # appliedSeq[t]

\* no message is in flight and no broadcast is pending
Silent ==
    /\ net = {}
    /\ \A t \in Tabs : ~timer[t]

\* C26: a tab never applies a state message of its own; the step that applies
\* a state of another tab sends no message, schedules no broadcast and leaves
\* every localRev as it was; localRev grows only when the page is opened and
\* on local changes; every tab sends at most one state per local change, per
\* join request of another tab and for its own join, and the room falls
\* silent for good.
C26_NoEcho ==
    /\ [](\A t \in Tabs :
             /\ appliedSeq[t][t] = 0
             /\ localRevs[t] <= 1 + changes
             /\ sentSeq[t] <= changes + Cardinality(Subscribed))
    /\ [][\A t \in Tabs :
             /\ Applies(t) =>
                   /\ localRevs' = localRevs
                   /\ timer' = timer
                   /\ sentSeq' = sentSeq
                   /\ net' \subseteq net
             /\ localRevs'[t] # localRevs[t] =>
                   /\ localRevs'[t] = localRevs[t] + 1
                   /\ changes' = changes + 1 \/ ~isReady[t]]_vars
    /\ <>[]Silent

\* a local change of one tab is shown by another tab, the copy sent back to
\* the tab that made it was dropped, and the room is silent
C26_Witness ==
    /\ Silent
    /\ \E s, t \in Subscribed :
          /\ s # t
          /\ localRevs[s] > 1
          /\ sentSeq[s] > 0
          /\ appliedSeq[t][s] > 0
          /\ tabState[t] = <<s, localRevs[s]>>
          /\ localRevs[t] = 1

\* C27: in every tab localRev and lastAppliedRev never decrease; a state is
\* applied only with a rev above the tab's lastAppliedRev, which becomes that
\* rev; and of one sender a tab never applies a state sent before the one it
\* applied last, in whatever order the messages arrive.
C27_NewestOnly ==
    [][\A t \in Tabs :
          /\ localRevs'[t] >= localRevs[t]
          /\ lastAppliedRevs'[t] >= lastAppliedRevs[t]
          /\ tabState'[t] # tabState[t] =>
                \/ localRevs'[t] > localRevs[t]
                \/ lastAppliedRevs'[t] > lastAppliedRevs[t]
          /\ Applies(t) =>
                \E m \in net \ net' :
                   /\ m.to = t
                   /\ m.rev > lastAppliedRevs[t]
                   /\ lastAppliedRevs'[t] = m.rev
                   /\ tabState'[t] = m.state
          /\ \A s \in Tabs : appliedSeq'[t][s] >= appliedSeq[t][s]]_vars

\* a tab has applied the second state of a sender, and the first one, which
\* arrives later, is still in flight
C27_Witness ==
    \E m \in net :
        /\ m.event = "state"
        /\ m.source # m.to
        /\ m.seq < appliedSeq[m.to][m.source]
        /\ m.state # tabState[m.to]

====
